---- MODULE Spec2Model ----
(***************************************************************************)
(* Even/Odd league: the agent-coordination protocol layer.                 *)
(*                                                                         *)
(*   SHARED/league_sdk/circuit_breaker.py   CircuitBreaker, registry       *)
(*   SHARED/league_sdk/mcp_client.py        MCPClient.send                 *)
(*   SHARED/league_sdk/game_rules/even_odd.py  EvenOddGame                 *)
(*   agents/league_manager/scheduler.py     Scheduler                      *)
(*   agents/referee_template/*.py           GameOrchestrator, handlers     *)
(*   agents/player_template/handlers.py     PlayerHandlers                 *)
(*                                                                         *)
(* Each component has its own specification (SpecBreaker, SpecClient, ...) *)
(* over the shared variables; a component's specification leaves the other *)
(* components' variables at their idle values.                             *)
(***************************************************************************)
EXTENDS Integers, Sequences, FiniteSets, TLC

VARIABLES
    now,        \* time.time(), in whole seconds
    cb,         \* one CircuitBreaker instance (SpecBreaker)
    lastCall,   \* history: the last call made on cb, the state before it, its result
    streak,     \* history: record_failure calls since the last record_success
    streakFrom, \* history: cb._state when the current streak of failures began
    hoSucc,     \* history: record_success calls since cb last became HALF_OPEN
    player_ids, \* Scheduler.player_ids: the list given to generate_schedule
    remaining,  \* generate_schedule: the pairings not yet placed in a round
    schedule,   \* Scheduler.schedule: rounds -> matches
    schedPc,    \* generate_schedule: "call", "loop" (the while loop) or "done";
                \* "assigned" after assign_referees
    referee_ids, \* the argument of assign_referees
    gameArgs,   \* the arguments of one EvenOddGame.determine_match_outcome call
    outcome,    \* the MatchOutcome it returned, NoOutcome before
    registry,   \* MCPClient._circuit_registry._breakers: endpoint -> CircuitBreaker
    calls,      \* per caller: its MCPClient.send call in progress, with its history
    sent,       \* history: the number of send calls made so far
    tally,      \* history: per endpoint, the records made since the counters' last reset
    active_matches, \* RefereeAgent.active_matches: match id -> match state
    conduct,    \* per match id: the conduct_match coroutine, its locals and its result
    players,    \* per player: PlayerState (state, current match and opponent)
    lastReply,   \* history: what the referee's handler answered to the last message
    standings,  \* StandingsManager.standings: the entries in registration order
    ranking,  \* what get_standings returned last, if nothing changed since
    standOp,  \* history: the last StandingsManager operation
    agent,  \* player_agent PlayerState: lifecycle, registration, current match, statistics
    disk,   \* per player id: the state.json written by PlayerState._persist
    server,  \* MCPServer of the receiving agent: rate limiter log, handler invocations
    exchange,  \* history: the last request, its response and how send ended
    league,  \* LeagueManager: registrations, scheduler, standings, started flag, tasks
    sim  \* two LeagueSimulation runs given the same players, strategies and drawn numbers

breakerVars == <<cb, lastCall, streak, streakFrom, hoSucc>>

schedVars == <<player_ids, remaining, schedule, schedPc, referee_ids>>

gameVars == <<gameArgs, outcome>>

clientVars == <<registry, calls, sent, tally>>

matchVars == <<active_matches, conduct, players, lastReply>>

standVars == <<standings, ranking, standOp>>

agentVars == <<agent, disk>>

serverVars == <<server, exchange>>

leagueVars == <<league>>

simVars == <<sim>>

vars == <<now, breakerVars, schedVars, gameVars, clientVars, matchVars, standVars, agentVars, serverVars, leagueVars, simVars>>

\* what the actions of one component leave alone
BreakerFrame == UNCHANGED <<schedVars, gameVars, clientVars, matchVars, standVars, agentVars, serverVars, leagueVars, simVars>>
SchedFrame == UNCHANGED <<now, breakerVars, gameVars, clientVars, matchVars, standVars, agentVars, serverVars, leagueVars, simVars>>
GameFrame == UNCHANGED <<now, breakerVars, schedVars, clientVars, matchVars, standVars, agentVars, serverVars, leagueVars, simVars>>
ClientFrame == UNCHANGED <<breakerVars, schedVars, gameVars, matchVars, standVars, agentVars, serverVars, leagueVars, simVars>>
MatchFrame == UNCHANGED <<breakerVars, schedVars, gameVars, clientVars, standVars, agentVars, serverVars, leagueVars, simVars>>
StandFrame == UNCHANGED <<now, breakerVars, schedVars, gameVars, clientVars, matchVars, agentVars, serverVars, leagueVars, simVars>>
AgentFrame == UNCHANGED <<now, breakerVars, schedVars, gameVars, clientVars, matchVars, standVars, serverVars, leagueVars, simVars>>
ServerFrame == UNCHANGED <<breakerVars, schedVars, gameVars, clientVars, matchVars, standVars, agentVars, leagueVars, simVars>>
LeagueFrame == UNCHANGED <<now, breakerVars, schedVars, gameVars, clientVars, matchVars, standVars, agentVars, serverVars, simVars>>
SimFrame == UNCHANGED <<now, breakerVars, schedVars, gameVars, clientVars, matchVars, standVars, agentVars, serverVars, leagueVars>>

----------------------------------------------------------------------------
(* Bounds of the model *)

MaxTime == 4
MaxTimeoutSeconds == 2
MaxThreshold == 2
MaxFailures == 3
MaxPlayers == 6
MaxClock == 80
MaxSends == 3
MaxReferees == 2
MaxUpdates == 4
MaxGames == 2
rate_limit == 2
MaxHandled == 2
MaxLeaguePlayers == 5
MaxConcurrentSends == 3

\* the player ids P01, P02, ... by number
PlayerPool == 1..MaxPlayers

----------------------------------------------------------------------------
(* circuit_breaker.py *)

CircuitState == {"CLOSED", "OPEN", "HALF_OPEN"}

DEFAULT_FAILURE_THRESHOLD == 5
DEFAULT_SUCCESS_THRESHOLD == 2
DEFAULT_TIMEOUT_SECONDS == 60

\* _last_failure_time: Optional[float] = None
NoneTime == -1

\* CircuitBreaker(failure_threshold, success_threshold, timeout_seconds) at time t
CircuitBreaker(ft, st, to, t) ==
    [ failure_threshold |-> ft,
      success_threshold |-> st,
      timeout_seconds   |-> to,
      state             |-> "CLOSED",
      failure_count     |-> 0,
      success_count     |-> 0,
      last_failure_time |-> NoneTime,
      last_state_change |-> t ]

transition_to_KeepSuccessCount(b, new_state, t) ==
    LET b1 == [b EXCEPT !.state = new_state, !.last_state_change = t]
    IN  IF new_state = "CLOSED"
        THEN [b1 EXCEPT !.failure_count = 0, !.success_count = 0]
        ELSE b1

\* CircuitBreaker._transition_to
transition_to(b, new_state, t) ==
    LET b1 == [b EXCEPT !.state = new_state, !.last_state_change = t]
    IN  IF new_state = "CLOSED"
        THEN [b1 EXCEPT !.failure_count = 0, !.success_count = 0]
        ELSE IF new_state = "HALF_OPEN"
        THEN [b1 EXCEPT !.success_count = 0]
        ELSE b1

state_StrictTimeout(b, t) ==
    IF b.state = "OPEN" /\ t - b.last_failure_time > b.timeout_seconds
    THEN transition_to(b, "HALF_OPEN", t)
    ELSE b

\* CircuitBreaker.state (property): the breaker after the timeout check;
\* the value the property returns is the state field of the result
state(b, t) ==
    IF b.state = "OPEN" /\ t - b.last_failure_time >= b.timeout_seconds
    THEN transition_to(b, "HALF_OPEN", t)
    ELSE b

record_success_ClosesWhenOpen(b, t) ==
    IF b.state = "HALF_OPEN"
    THEN LET b1 == [b EXCEPT !.success_count = @ + 1]
         IN  IF b1.success_count >= b1.success_threshold
             THEN transition_to(b1, "CLOSED", t)
             ELSE b1
    ELSE transition_to(b, "CLOSED", t)

\* CircuitBreaker.record_success
record_success(b, t) ==
    IF b.state = "HALF_OPEN"
    THEN LET b1 == [b EXCEPT !.success_count = @ + 1]
         IN  IF b1.success_count >= b1.success_threshold
             THEN transition_to(b1, "CLOSED", t)
             ELSE b1
    ELSE IF b.state = "CLOSED"
    THEN [b EXCEPT !.failure_count = 0]
    ELSE b

record_failure_OnlyWhenClosed(b, t) ==
    LET b1 == [b EXCEPT !.failure_count = @ + 1, !.last_failure_time = t]
    IN  IF b1.state = "CLOSED" /\ b1.failure_count >= b1.failure_threshold
        THEN transition_to(b1, "OPEN", t)
        ELSE b1

\* CircuitBreaker.record_failure
record_failure(b, t) ==
    LET b1 == [b EXCEPT !.failure_count = @ + 1, !.last_failure_time = t]
    IN  IF b1.state = "HALF_OPEN"
        THEN transition_to(b1, "OPEN", t)
        ELSE IF b1.state = "CLOSED"
        THEN IF b1.failure_count >= b1.failure_threshold
             THEN transition_to(b1, "OPEN", t)
             ELSE b1
        ELSE b1

\* CircuitBreaker.can_execute: the value returned (the breaker becomes state(b, t))
can_execute(b, t) == state(b, t).state \in {"CLOSED", "HALF_OPEN"}

\* CircuitBreakerRegistry: no breaker created yet for an endpoint
NoBreaker == [ state |-> "ABSENT" ]

registry_get_AlwaysNew(reg, endpoint, t) ==
    [reg EXCEPT ![endpoint] =
        CircuitBreaker(DEFAULT_FAILURE_THRESHOLD, DEFAULT_SUCCESS_THRESHOLD,
                       DEFAULT_TIMEOUT_SECONDS, t)]

\* CircuitBreakerRegistry.get(endpoint) with its default arguments, at time t
registry_get(reg, endpoint, t) ==
    IF reg[endpoint] = NoBreaker
    THEN [reg EXCEPT ![endpoint] =
             CircuitBreaker(DEFAULT_FAILURE_THRESHOLD, DEFAULT_SUCCESS_THRESHOLD,
                            DEFAULT_TIMEOUT_SECONDS, t)]
    ELSE reg

----------------------------------------------------------------------------
(* mcp_client.py *)

DEFAULT_MAX_RETRIES == 3
DEFAULT_BACKOFF_SECONDS == 2
\* the destinations and the concurrent callers of send
Endpoints == {"e1", "e2"}
Callers == {"t1", "t2"}

\* how one HTTP attempt can end: a 2xx with a JSON body, a 2xx whose body is not
\* JSON, httpx.TimeoutException, httpx.ConnectError, a 5xx and a 4xx status
AttemptOutcomes == {"ok", "malformed", "timeout", "connect", "5xx", "4xx"}

\* the exception each failed attempt raises
ErrorOf(o) ==
    CASE o = "timeout"   -> "TimeoutException"
      [] o = "connect"   -> "ConnectError"
      [] o = "5xx"       -> "HTTPStatusError5xx"
      [] o = "4xx"       -> "HTTPStatusError4xx"
      [] o = "malformed" -> "JSONDecodeError"
      [] OTHER           -> "None"

attempt_range_OneMore == 0..(DEFAULT_MAX_RETRIES + 1)

\* for attempt in range(self.max_retries + 1)
attempt_range == 0..DEFAULT_MAX_RETRIES

\* if attempt < self.max_retries: the failed attempt is followed by a sleep
sleeps_after(attempt) == attempt < DEFAULT_MAX_RETRIES

\* the delay of asyncio.sleep after the failed attempt
backoff_delay(attempt) == DEFAULT_BACKOFF_SECONDS * (attempt + 1)

admits_Always(b, t) == TRUE

\* send, line 116: the call goes on only if circuit.can_execute()
admits(b, t) == can_execute(b, t)

\* a caller with no send yet
IdleCall ==
    [ pc         |-> "idle",   \* idle, post (attempt in flight), sleep, returned, raised
      endpoint   |-> "e1",
      attempt    |-> 0,
      timer      |-> 0,        \* sleep: when it ends
      last_error |-> "None",
      error      |-> "None",   \* the exception send raised
      posts      |-> 0,        \* history: HTTP attempts issued by this call
      failed     |-> 0,        \* history: attempts ended by timeout, connect error, 5xx
      sleeps     |-> <<>>,     \* history: the delay of each sleep of this call
      recorded   |-> 0,        \* history: record_failure calls of this call
      fc0        |-> 0,        \* history: the breaker's failure_count when the call began
      no         |-> 0 ]       \* history: the number of this call among all send calls

\* the callers are interchangeable: t2 makes its first call after t1's first
MayCall(t) == t = "t2" => calls["t1"].pc # "idle"

\* nothing recorded
NoTally == [failures |-> 0, successes |-> 0]

IdleClient ==
    /\ registry = [e \in Endpoints |-> NoBreaker]
    /\ calls = [t \in Callers |-> IdleCall]
    /\ sent = 0
    /\ tally = [e \in Endpoints |-> NoTally]

----------------------------------------------------------------------------
(* game_rules/even_odd.py *)

\* None where an id is expected (winner_id, referee_id)
NoneId == 0

ParityChoice == {"even", "odd"}

\* EvenOddGame.__init__ defaults
min_number == 1
max_number == 10

\* EvenOddGame.get_parity
get_parity(number) == IF number % 2 = 0 THEN "even" ELSE "odd"

determine_match_outcome_BothWrongBothLose(a_id, a_choice, b_id, b_choice, drawn_number) ==
    LET number_parity == get_parity(drawn_number)
        a_correct == a_choice = number_parity
        b_correct == b_choice = number_parity
        res == IF a_correct /\ b_correct THEN <<"DRAW", "DRAW", NoneId>>
               ELSE IF a_correct THEN <<"WIN", "LOSS", a_id>>
               ELSE IF b_correct THEN <<"LOSS", "WIN", b_id>>
               ELSE <<"LOSS", "LOSS", NoneId>>
    IN  [ drawn_number    |-> drawn_number,
          number_parity   |-> number_parity,
          player_a_choice |-> a_choice,
          player_b_choice |-> b_choice,
          player_a_result |-> res[1],
          player_b_result |-> res[2],
          winner_id       |-> res[3] ]

\* EvenOddGame.determine_match_outcome, the number already drawn
determine_match_outcome(a_id, a_choice, b_id, b_choice, drawn_number) ==
    LET number_parity == get_parity(drawn_number)
        a_correct == a_choice = number_parity
        b_correct == b_choice = number_parity
        res == IF a_correct /\ b_correct THEN <<"DRAW", "DRAW", NoneId>>
               ELSE IF a_correct THEN <<"WIN", "LOSS", a_id>>
               ELSE IF b_correct THEN <<"LOSS", "WIN", b_id>>
               ELSE <<"DRAW", "DRAW", NoneId>>
    IN  [ drawn_number    |-> drawn_number,
          number_parity   |-> number_parity,
          player_a_choice |-> a_choice,
          player_b_choice |-> b_choice,
          player_a_result |-> res[1],
          player_b_result |-> res[2],
          winner_id       |-> res[3] ]

NoOutcome == [ drawn_number |-> 0 ]

IdleGame ==
    /\ gameArgs = [ a_id |-> 1, a_choice |-> "even", b_id |-> 2, b_choice |-> "even" ]
    /\ outcome = NoOutcome

----------------------------------------------------------------------------
(* referee_template/game_logic.py, referee_template/handlers.py,           *)
(* player_template/handlers.py, player_template/state.py                   *)

MatchIds == {"m1", "m2"}
Sides == {"a", "b"}

\* the players the referee deals with: P01, P02, P03 by number
MatchPlayers == {1, 2, 3}

\* asyncio.sleep(5) after the invitations, asyncio.sleep(30) after the requests;
\* the deadlines sent along are now + 5 and now + 30
JOIN_WINDOW == 5
CHOICE_WINDOW == 30

\* no entry in active_matches
NoMatch == [ match_id |-> "None" ]

\* no choice received yet (player_a_choice: None)
NoChoice == "None"

\* conduct_match, lines 53-62: the match state stored in active_matches
MatchState(m, round_id, a, b) ==
    [ match_id        |-> m,
      round_id        |-> round_id,
      player_a        |-> a,
      player_b        |-> b,
      player_a_joined |-> FALSE,
      player_b_joined |-> FALSE,
      player_a_choice |-> NoChoice,
      player_b_choice |-> NoChoice ]

PlayerOf(ms, side) == IF side = "a" THEN ms.player_a ELSE ms.player_b
OpponentOf(ms, side) == IF side = "a" THEN ms.player_b ELSE ms.player_a

\* the sides whose join flag is not set, whose choice is not there
missing_joins(ms) ==
    {s \in Sides : ~(IF s = "a" THEN ms.player_a_joined ELSE ms.player_b_joined)}
missing_choices(ms) ==
    {s \in Sides : (IF s = "a" THEN ms.player_a_choice ELSE ms.player_b_choice) = NoChoice}

technical_loss_result_SpareResponder(ms, reason) ==
    [ match_id        |-> ms.match_id,
      round_id        |-> ms.round_id,
      error           |-> reason,
      player_a_result |-> IF ms.player_a_choice # NoChoice /\ ms.player_b_choice = NoChoice
                          THEN "WIN" ELSE "TECHNICAL_LOSS",
      player_b_result |-> "TECHNICAL_LOSS" ]

\* GameOrchestrator._technical_loss_result
technical_loss_result(ms, reason) ==
    [ match_id        |-> ms.match_id,
      round_id        |-> ms.round_id,
      error           |-> reason,
      player_a_result |-> "TECHNICAL_LOSS",
      player_b_result |-> "TECHNICAL_LOSS" ]

\* GameOrchestrator._determine_winner, the number being the one drawn
determine_winner(ms, drawn_number) ==
    LET o == determine_match_outcome(ms.player_a, ms.player_a_choice,
                                     ms.player_b, ms.player_b_choice, drawn_number)
    IN  [ match_id        |-> ms.match_id,
          round_id        |-> ms.round_id,
          drawn_number    |-> o.drawn_number,
          player_a_choice |-> o.player_a_choice,
          player_b_choice |-> o.player_b_choice,
          player_a_result |-> o.player_a_result,
          player_b_result |-> o.player_b_result,
          winner_id       |-> o.winner_id ]

join_ok_EitherFlag(ms) == ms.player_a_joined \/ ms.player_b_joined

\* _send_invitations, line 138: both join flags are set
join_ok(ms) == ms.player_a_joined /\ ms.player_b_joined

\* _request_parity_choices, lines 175-178: both choices are there
choices_ok(ms) == ms.player_a_choice # NoChoice /\ ms.player_b_choice # NoChoice

handle_game_join_ack_AnySender(table, m, player_id, status) ==
    IF status # "ACCEPTED" THEN table
    ELSE IF table[m] = NoMatch THEN table
    ELSE IF table[m].player_a = player_id
    THEN [table EXCEPT ![m].player_a_joined = TRUE]
    ELSE [table EXCEPT ![m].player_b_joined = TRUE]

\* RefereeHandlers.handle_game_join_ack: the table afterwards
handle_game_join_ack(table, m, player_id, status) ==
    IF status # "ACCEPTED" THEN table
    ELSE IF table[m] = NoMatch THEN table
    ELSE IF table[m].player_a = player_id
    THEN [table EXCEPT ![m].player_a_joined = TRUE]
    ELSE IF table[m].player_b = player_id
    THEN [table EXCEPT ![m].player_b_joined = TRUE]
    ELSE table

\* RefereeHandlers.handle_game_join_ack: the answer
join_ack_reply(table, m, status) ==
    IF status # "ACCEPTED" THEN "RECEIVED"
    ELSE IF table[m] = NoMatch THEN "ERROR"
    ELSE "RECEIVED"

handle_parity_response_NoValidation(table, m, player_id, parity_choice) ==
    IF table[m] = NoMatch THEN table
    ELSE IF table[m].player_a = player_id
    THEN [table EXCEPT ![m].player_a_choice = parity_choice]
    ELSE IF table[m].player_b = player_id
    THEN [table EXCEPT ![m].player_b_choice = parity_choice]
    ELSE table

\* RefereeHandlers.handle_parity_response: the table afterwards
handle_parity_response(table, m, player_id, parity_choice) ==
    IF parity_choice \notin ParityChoice THEN table
    ELSE IF table[m] = NoMatch THEN table
    ELSE IF table[m].player_a = player_id
    THEN [table EXCEPT ![m].player_a_choice = parity_choice]
    ELSE IF table[m].player_b = player_id
    THEN [table EXCEPT ![m].player_b_choice = parity_choice]
    ELSE table

\* RefereeHandlers.handle_parity_response: the answer
parity_reply(table, m, parity_choice) ==
    IF parity_choice \notin ParityChoice THEN "ERROR"
    ELSE IF table[m] = NoMatch THEN "ERROR"
    ELSE "RECEIVED"

\* PlayerState as the player agent starts a league: registered, in no match
RegisteredPlayer ==
    [ state |-> "REGISTERED", current_match_id |-> "None", current_opponent_id |-> NoneId ]

\* PlayerState.set_active
set_active(ps, match_id, opponent_id) ==
    [ps EXCEPT !.state = "ACTIVE", !.current_match_id = match_id,
               !.current_opponent_id = opponent_id]

\* PlayerState.record_result, called by PlayerHandlers.handle_game_over
player_record_result(ps, result) ==
    [ps EXCEPT !.state = "REGISTERED", !.current_match_id = "None",
               !.current_opponent_id = NoneId]

\* GameOrchestrator._send_game_over: the players ps after it; it writes a log
\* line and sends no GAME_OVER, so handle_game_over runs at neither player
send_game_over(ps, ms, result) == ps

NoResult == [ match_id |-> "None" ]

\* a conduct_match not yet called
IdleConduct ==
    [ pc       |-> "idle",    \* idle, inviting, join_wait, requesting, choice_wait, done
      deadline |-> 0,         \* the deadline carried by the messages of the phase
      wake     |-> 0,         \* when the sleep of the phase ends
      sends    |-> [s \in Sides |-> "none"],  \* the phase's send to each side:
                                              \* none, pending, answered, failed
      started  |-> [s \in Sides |-> NoneTime],  \* when that send was started
      carried  |-> [s \in Sides |-> NoneTime],  \* the deadline in its message
      acks     |-> [s \in Sides |-> "none"],  \* history: the status in the player's
                                              \* answer to the invitation
      answers  |-> [s \in Sides |-> NoChoice],\* history: the choice in the player's
                                              \* answer to the choice request
      report   |-> "none",    \* _report_result after the return: none, sent, failed
      requested |-> FALSE,    \* history: the choice requests were sent
      missing  |-> {},        \* history: the sides whose join flag or choice was
                              \* not there when the match timed out
      late_join |-> FALSE,    \* history: a join flag was set after the deadline
                              \* carried by the invitations had passed
      late     |-> FALSE,     \* history: some answer came later than the instant
                              \* its request was issued
      result   |-> NoResult ]

\* what client.send to a player may raise: the last error after the retries, an
\* HTTP status error, CircuitBreakerOpen, a body that is not JSON, and the
\* cancellation of the awaiting task
SendFailures ==
    {"TimeoutException", "ConnectError", "HTTPStatusError", "CircuitBreakerOpen",
     "JSONDecodeError", "CancelledError"}

is_caught_OnlyHttpx(e) == e \in {"TimeoutException", "ConnectError", "HTTPStatusError"}

\* invite_player, request_choice: except Exception (CancelledError is a
\* BaseException, not an Exception)
is_caught(e) == e # "CancelledError"

\* conduct_match left by an exception: there is no result, the exception goes up
raised_result(ms, e) ==
    [ match_id |-> ms.match_id, round_id |-> ms.round_id, raised |-> e ]

fan_out_Sequential(t, deadline) ==
    [ sends   |-> [s \in Sides |-> IF s = "a" THEN "pending" ELSE "none"],
      started |-> [s \in Sides |-> IF s = "a" THEN t ELSE NoneTime],
      carried |-> [s \in Sides |-> IF s = "a" THEN deadline ELSE NoneTime] ]

\* tasks = [...]; await asyncio.gather(*tasks): at instant t both sends of the
\* phase are started, each carrying the deadline computed before
fan_out(t, deadline) ==
    [ sends   |-> [s \in Sides |-> "pending"],
      started |-> [s \in Sides |-> t],
      carried |-> [s \in Sides |-> deadline] ]

pop_Keep(table, m) == table

\* conduct_match, lines 84-86: finally: active_matches.pop(match_id, None)
pop(table, m) == [table EXCEPT ![m] = NoMatch]

sleep_over_Blocking(m) ==
    /\ now >= conduct[m].wake
    /\ \A x \in MatchIds \ {m} : conduct[x].pc \notin {"inviting", "requesting"}

\* await asyncio.sleep(...): the coroutine of match m goes on once its own delay
\* has passed, whatever the other coroutines of the event loop are awaiting
sleep_over(m) == now >= conduct[m].wake

\* conduct_match returns: its locals are gone, its result stays
returned(c, result) ==
    [c EXCEPT !.pc = "done", !.deadline = 0, !.wake = 0,
              !.sends = [s \in Sides |-> "none"],
              !.started = [s \in Sides |-> NoneTime],
              !.carried = [s \in Sides |-> NoneTime],
              !.result = result]

IdleMatch ==
    /\ active_matches = [m \in MatchIds |-> NoMatch]
    /\ conduct = [m \in MatchIds |-> IdleConduct]
    /\ players = [p \in MatchPlayers |-> RegisteredPlayer]
    /\ lastReply = "None"

----------------------------------------------------------------------------
(* scheduler.py *)

\* the lists of distinct player ids
PlayerLists ==
    UNION { {q \in [1..n -> PlayerPool] : \A i, j \in 1..n : i # j => q[i] # q[j]} :
            n \in 0..MaxPlayers }

\* itertools.combinations(ids, 2), in its order
RECURSIVE combinations2(_)
combinations2(ids) ==
    IF Len(ids) < 2
    THEN <<>>
    ELSE [j \in 1..(Len(ids) - 1) |-> <<ids[1], ids[j + 1]>>] \o combinations2(Tail(ids))

\* list.remove(x): drops the first element equal to x
RECURSIVE remove(_, _)
remove(list, x) ==
    IF list = <<>> THEN <<>>
    ELSE IF Head(list) = x THEN Tail(list)
    ELSE <<Head(list)>> \o remove(Tail(list), x)

\* the match dict appended to round_matches
Match(round_num, round_matches, p1, p2) ==
    [ match_id   |-> <<round_num + 1, Len(round_matches) + 1>>,
      round_id   |-> round_num + 1,
      player_a   |-> p1,
      player_b   |-> p2,
      referee_id |-> NoneId ]

fits_FirstPlayerOnly(match, players_in_round) ==
    match[1] \notin players_in_round

\* the test of the for loop: neither player is in the round yet
fits(match, players_in_round) ==
    match[1] \notin players_in_round /\ match[2] \notin players_in_round

\* the for loop over remaining[:] from position i on; acc holds round_matches,
\* players_in_round and remaining
RECURSIVE pack_round(_, _, _, _)
pack_round(snapshot, i, round_num, acc) ==
    IF i > Len(snapshot) THEN acc
    ELSE LET match == snapshot[i]
         IN  IF fits(match, acc.players_in_round)
             THEN pack_round(snapshot, i + 1, round_num,
                     [ round_matches    |-> Append(acc.round_matches,
                                               Match(round_num, acc.round_matches,
                                                     match[1], match[2])),
                       players_in_round |-> acc.players_in_round \cup {match[1], match[2]},
                       remaining        |-> remove(acc.remaining, match) ])
             ELSE pack_round(snapshot, i + 1, round_num, acc)

\* the referee ids REF01, REF02, ... by number, and the lists of the first m
RefereeId(i) == 100 + i
RefereeLists == {[i \in 1..m |-> RefereeId(i)] : m \in 0..MaxReferees}

RECURSIVE assign_rounds_PerRound(_, _, _)
assign_rounds_PerRound(rounds, ids, ref_idx) ==
    IF rounds = <<>> THEN <<>>
    ELSE <<[i \in 1..Len(Head(rounds)) |->
               [Head(rounds)[i] EXCEPT
                   !.referee_id = ids[((ref_idx + i - 1) % Len(ids)) + 1]]]>>
         \o assign_rounds_PerRound(Tail(rounds), ids, 0)

\* assign_referees, lines 80-84: the two for loops, ref_idx being the index
\* reached before the first of the rounds given
RECURSIVE assign_rounds(_, _, _)
assign_rounds(rounds, ids, ref_idx) ==
    IF rounds = <<>> THEN <<>>
    ELSE <<[i \in 1..Len(Head(rounds)) |->
               [Head(rounds)[i] EXCEPT
                   !.referee_id = ids[((ref_idx + i - 1) % Len(ids)) + 1]]]>>
         \o assign_rounds(Tail(rounds), ids, ref_idx + Len(Head(rounds)))

\* Scheduler.assign_referees
assign_referees(sched, ids) ==
    IF ids = <<>> THEN sched ELSE assign_rounds(sched, ids, 0)

\* the matches of the schedule, flattened in round order
RECURSIVE flatten(_)
flatten(rounds) == IF rounds = <<>> THEN <<>> ELSE Head(rounds) \o flatten(Tail(rounds))

IdleSched ==
    /\ player_ids = <<>>
    /\ remaining = <<>>
    /\ schedule = <<>>
    /\ schedPc = "call"
    /\ referee_ids = <<>>

----------------------------------------------------------------------------
(* league_manager/standings.py *)

\* the players of the table, P01, P02, P03 by number, and their ids as text
StandPlayers == {1, 2, 3}
IdText(p) == IF p = NoneId THEN "None" ELSE <<"P01", "P02", "P03", "P04">>[p]

\* the display names a player may register with ("" is the default)
DisplayNames(p) == IF p = 1 THEN {"", "Ann"} ELSE {""}

\* the results reported; the last one is none of the four known
ResultValues == {"WIN", "DRAW", "LOSS", "TECHNICAL_LOSS", "FORFEIT"}

\* PlayerStanding(player_id, display_name)
PlayerStanding(player_id, display_name) ==
    [ player_id |-> player_id, display_name |-> display_name,
      points |-> 0, wins |-> 0, draws |-> 0, losses |-> 0, played |-> 0 ]

\* the position of player_id in the table, 0 if it has no entry
RECURSIVE index_of(_, _)
index_of(table, player_id) ==
    IF table = <<>> THEN 0
    ELSE IF table[Len(table)].player_id = player_id THEN Len(table)
    ELSE index_of(SubSeq(table, 1, Len(table) - 1), player_id)

\* StandingsManager.register_player
register_player(table, player_id, display_name) ==
    IF index_of(table, player_id) = 0
    THEN Append(table, PlayerStanding(player_id,
                          IF display_name # "" THEN display_name ELSE IdText(player_id)))
    ELSE table

scoring_DrawIsTwo(result) ==
    CASE result = "WIN" -> 3 [] result = "DRAW" -> 2 [] OTHER -> 0

\* self.scoring.get(result, 0)
scoring(result) ==
    CASE result = "WIN" -> 3 [] result = "DRAW" -> 1 [] OTHER -> 0

\* StandingsManager.update_result
update_result(table, player_id, result) ==
    LET t == register_player(table, player_id, "")
        i == index_of(t, player_id)
    IN  [t EXCEPT ![i] =
            [@ EXCEPT !.played = @ + 1,
                      !.points = @ + scoring(result),
                      !.wins   = IF result = "WIN" THEN @ + 1 ELSE @,
                      !.draws  = IF result = "DRAW" THEN @ + 1 ELSE @,
                      !.losses = IF result \notin {"WIN", "DRAW"} THEN @ + 1 ELSE @]]

key_less_PointsOnly(x, y) == x.points > y.points

\* key=lambda x: (-x.points, -x.wins): x sorts strictly before y
key_less(x, y) ==
    \/ x.points > y.points
    \/ x.points = y.points /\ x.wins > y.wins

\* sorted() is stable: x goes before the first entry it sorts strictly before
RECURSIVE insert_sorted(_, _)
insert_sorted(list, x) ==
    IF list = <<>> THEN <<x>>
    ELSE IF key_less(x, Head(list)) THEN <<x>> \o list
    ELSE <<Head(list)>> \o insert_sorted(Tail(list), x)

RECURSIVE sorted(_)
sorted(list) ==
    IF list = <<>> THEN <<>>
    ELSE insert_sorted(sorted(SubSeq(list, 1, Len(list) - 1)), list[Len(list)])

\* StandingsManager.get_standings
get_standings(table) ==
    LET sorted_standings == sorted(table)
    IN  [i \in 1..Len(table) |->
            [ rank         |-> i,
              player_id    |-> sorted_standings[i].player_id,
              display_name |-> sorted_standings[i].display_name,
              points       |-> sorted_standings[i].points,
              wins         |-> sorted_standings[i].wins,
              draws        |-> sorted_standings[i].draws,
              losses       |-> sorted_standings[i].losses,
              played       |-> sorted_standings[i].played ]]

reset_KeepPlayed(table) ==
    [i \in 1..Len(table) |->
        [table[i] EXCEPT !.points = 0, !.wins = 0, !.draws = 0, !.losses = 0]]

\* StandingsManager.reset
reset(table) ==
    [i \in 1..Len(table) |->
        [table[i] EXCEPT !.points = 0, !.wins = 0, !.draws = 0, !.losses = 0,
                         !.played = 0]]

\* no list returned (or the table has changed since)
NoRanking == <<>>

IdleStand ==
    /\ standings = <<>>
    /\ ranking = NoRanking
    /\ standOp = "none"

----------------------------------------------------------------------------
(* src/src/agents/player_agent/state.py *)

AgentLifecycle == {"INIT", "REGISTERED", "ACTIVE", "SUSPENDED", "SHUTDOWN"}

\* current_match: Optional[MatchState] = None
NoCurrentMatch == [ match_id |-> "None" ]

\* PlayerState()
NewPlayerState ==
    [ lifecycle     |-> "INIT",
      player_id     |-> NoneId,
      current_match |-> NoCurrentMatch,
      total_games   |-> 0,
      data_dir      |-> FALSE ]   \* _data_dir is set

\* PlayerState.register
agent_register(st, player_id) ==
    [st EXCEPT !.player_id = player_id, !.lifecycle = "REGISTERED"]

\* PlayerState.start_match
agent_start_match(st, match_id) ==
    [st EXCEPT !.current_match = [ match_id |-> match_id, choice |-> "None" ],
               !.lifecycle = "ACTIVE"]

\* PlayerState.record_choice
agent_record_choice(st, choice) ==
    IF st.current_match # NoCurrentMatch
    THEN [st EXCEPT !.current_match.choice = choice]
    ELSE st

\* PlayerState.end_match
agent_end_match(st, result) ==
    IF st.current_match # NoCurrentMatch
    THEN [st EXCEPT !.total_games = @ + 1,
                    !.current_match = NoCurrentMatch,
                    !.lifecycle = "REGISTERED"]
    ELSE st

\* PlayerState.suspend
agent_suspend(st) == [st EXCEPT !.lifecycle = "SUSPENDED"]

\* PlayerState.recover
agent_recover(st) ==
    IF st.lifecycle = "SUSPENDED" THEN [st EXCEPT !.lifecycle = "REGISTERED"] ELSE st

\* PlayerState.shutdown
agent_shutdown(st) == [st EXCEPT !.lifecycle = "SHUTDOWN"]

\* PlayerState.set_data_dir
agent_set_data_dir(st) == [st EXCEPT !.data_dir = TRUE]

\* the player ids an agent can be given
AgentIds == {1, 2}

\* no state.json for a player id
NoFile == [ lifecycle |-> "None" ]

\* PlayerState._persist on the files fs: written only if _get_state_file finds
\* a data directory and a player id
persist(st, fs) ==
    IF st.data_dir /\ st.player_id # NoneId
    THEN [fs EXCEPT ![st.player_id] =
             [ player_id   |-> st.player_id,
               lifecycle   |-> st.lifecycle,
               total_games |-> st.total_games ]]
    ELSE fs

\* PlayerState.load(data_dir, player_id): a new PlayerState with what the file
\* holds; the current match is not in the file
load(fs, player_id) ==
    IF fs[player_id] = NoFile
    THEN [NewPlayerState EXCEPT !.data_dir = TRUE]
    ELSE [NewPlayerState EXCEPT !.data_dir = TRUE,
                                !.player_id = fs[player_id].player_id,
                                !.lifecycle = fs[player_id].lifecycle,
                                !.total_games = fs[player_id].total_games]

IdleAgent ==
    /\ agent = NewPlayerState
    /\ disk = [p \in AgentIds |-> NoFile]

----------------------------------------------------------------------------
(* SHARED/league_sdk/mcp_server.py, auth.py, helpers.py: the receiving side  *)

RATE_LIMIT_WINDOW_SECONDS == 60
TOKEN_MIN_LENGTH == 16

\* a timestamp value of the params: a string, written as its pieces ("DT" is
\* the part dddd-dd-ddTdd:dd:dd), or a JSON number
Str(pieces) == [ type |-> "str", pieces |-> pieces ]
JsonNumber == [ type |-> "int", pieces |-> <<>> ]

\* helpers.utc_now
utc_now == Str(<<"DT", "Z">>)

Timestamps ==
    { Str(<<>>), Str(<<"DT">>), utc_now, Str(<<"DT", "+00:00">>),
      Str(<<"DT", "+02:00">>), Str(<<"DT", "Z", "\n">>), JsonNumber }

\* re.match of a pattern ^...$ : $ matches at the end of the string and also
\* just before a newline that ends it
re_match(pattern, pieces) ==
    \/ pieces = pattern
    \/ pieces = Append(pattern, "\n")

\* helpers.validate_utc; raises is the TypeError re.match gives for a value
\* that is no string
validate_utc(timestamp) ==
    IF timestamp.type = "str" /\ timestamp.pieces = <<>>
    THEN [ raises |-> FALSE, value |-> FALSE ]
    ELSE IF timestamp.type # "str"
    THEN [ raises |-> TRUE, value |-> FALSE ]
    ELSE [ raises |-> FALSE,
           value  |-> \/ re_match(<<"DT", "Z">>, timestamp.pieces)
                      \/ re_match(<<"DT", "+00:00">>, timestamp.pieces) ]

\* auth.AUTH_REQUIRED_MESSAGE_TYPES, requires_auth
AUTH_REQUIRED_MESSAGE_TYPES ==
    { "GAME_JOIN_ACK", "CHOOSE_PARITY_RESPONSE", "QUERY_STANDINGS_REQUEST",
      "QUERY_SCHEDULE_REQUEST", "LEAGUE_UNREGISTER_REQUEST", "REPORT_MATCH_RESULT",
      "CHOOSE_PARITY_CALL", "GAME_INVITATION", "GAME_OVER" }

requires_auth(message_type) == message_type \in AUTH_REQUIRED_MESSAGE_TYPES

\* the auth tokens a request can carry ("None": no auth_token key) and their
\* lengths; generate_token gives 32 characters
Tokens == {"None", "short", "unregistered", "registered"}
token_len(token) == IF token = "short" THEN TOKEN_MIN_LENGTH - 1 ELSE 2 * TOKEN_MIN_LENGTH

\* AuthTokenValidator.validate_token(token), no expected_agent_id
validate_token(valid_tokens, token) ==
    IF token = "None" \/ token_len(token) < TOKEN_MIN_LENGTH
    THEN FALSE
    ELSE token \in valid_tokens

\* MCPServer._validate_auth_token
validate_auth_token(valid_tokens, token) ==
    IF token = "None" THEN FALSE ELSE validate_token(valid_tokens, token)

\* dict.get(key, default) on the params of a request
get(params, key, default) == IF key \in DOMAIN params THEN params[key] ELSE default

RequiredFields == {"protocol", "message_type", "sender", "timestamp", "conversation_id"}

\* MCPServer._validate_envelope
validate_envelope(params) ==
    IF ~(RequiredFields \subseteq DOMAIN params)
    THEN [ raises |-> FALSE, value |-> FALSE ]
    ELSE IF get(params, "protocol", "None") # "league.v2"
    THEN [ raises |-> FALSE, value |-> FALSE ]
    ELSE validate_utc(get(params, "timestamp", Str(<<>>)))

\* the senders the rate limiter keeps a list for
SenderKeys == {"referee:REF01", "unknown"}

\* RateLimiter.is_allowed at time t
is_allowed(requests, sender, t) ==
    LET window_start == t - RATE_LIMIT_WINDOW_SECONDS
        kept == SelectSeq(requests[sender], LAMBDA x : x > window_start)
    IN  IF Len(kept) >= rate_limit
        THEN [ allowed |-> FALSE, requests |-> [requests EXCEPT ![sender] = kept] ]
        ELSE [ allowed |-> TRUE,
               requests |-> [requests EXCEPT ![sender] = Append(kept, t)] ]

\* the message kinds the agent registered a handler for
Handlers == {"GAME_INVITATION", "LEAGUE_REGISTER_REQUEST"}
Methods == Handlers \cup {"PING"}

\* MCPServer(...) of an agent whose peer registered its token
NewServer(enable_rate_limiting) ==
    [ enable_rate_limiting |-> enable_rate_limiting,
      requests     |-> [k \in SenderKeys |-> <<>>],
      valid_tokens |-> {"registered"},
      handled      |-> 0 ]

\* the response of _handle_request: the HTTP status, the JSON-RPC error code
\* (0: a result), and whether the handler was awaited
Response(srv, status, code, invoked) ==
    [ server |-> srv, status |-> status, code |-> code, invoked |-> invoked ]

\* MCPServer._error_response: a JSONResponse, status 200
error_response(srv, code) == Response(srv, 200, code, FALSE)

\* MCPServer._handle_request at time t; handler_raises: the handler ends in an
\* exception. An exception outside the try blocks is answered with status 500.
handle_request(srv, body, t, handler_raises) ==
    IF ~body.json THEN error_response(srv, -32700)
    ELSE IF body.jsonrpc # "2.0" THEN error_response(srv, -32600)
    ELSE
    LET params == body.params
        sender == get(params, "sender", "unknown")
        limit  == is_allowed(srv.requests, sender, t)
        srv1   == IF srv.enable_rate_limiting
                  THEN [srv EXCEPT !.requests = limit.requests]
                  ELSE srv
        valid  == validate_envelope(params)
    IN  IF srv.enable_rate_limiting /\ ~limit.allowed
        THEN error_response(srv1, -32000)
        ELSE IF valid.raises
        THEN Response(srv1, 500, 0, FALSE)
        ELSE IF ~valid.value
        THEN error_response(srv1, -32602)
        ELSE IF /\ requires_auth(body.method)
                /\ ~validate_auth_token(srv.valid_tokens, get(params, "auth_token", "None"))
        THEN error_response(srv1, -32001)
        ELSE IF body.method \notin Handlers
        THEN error_response(srv1, -32601)
        ELSE LET srv2 == [srv1 EXCEPT !.handled = @ + 1]
             IN  IF handler_raises
                 THEN Response(srv2, 200, -32603, TRUE)
                 ELSE Response(srv2, 200, 0, TRUE)

\* MCPClient._build_envelope and the jsonrpc_request of send, lines 78-89, 120-126
build_request(method, sender, auth_token) ==
    [ json    |-> TRUE,
      jsonrpc |-> "2.0",
      method  |-> method,
      params  |-> IF auth_token = "None"
                  THEN [ protocol |-> "league.v2", message_type |-> method,
                         sender |-> sender, timestamp |-> utc_now,
                         conversation_id |-> "c1" ]
                  ELSE [ protocol |-> "league.v2", message_type |-> method,
                         sender |-> sender, timestamp |-> utc_now,
                         conversation_id |-> "c1", auth_token |-> auth_token ] ]

\* the same params without one key
without(params, key) == [k \in (DOMAIN params) \ {key} |-> params[k]]

\* what a peer, conforming or not, can put in the envelope
EnvelopeVariants(params) ==
    {params}
    \cup {without(params, k) : k \in RequiredFields}
    \cup {[params EXCEPT !.protocol = "league.v1"]}
    \cup {[params EXCEPT !.timestamp = ts] : ts \in Timestamps}

\* the requests that can arrive: any kind, any token, one variation of the
\* envelope, and a body that is no JSON or no JSON-RPC 2.0
Requests ==
    LET built == {build_request(m, "referee:REF01", tok) : m \in Methods, tok \in Tokens}
        varied == UNION {{[b EXCEPT !.params = p] : p \in EnvelopeVariants(b.params)} :
                            b \in built}
        base == build_request("GAME_INVITATION", "referee:REF01", "registered")
    IN  varied \cup {[base EXCEPT !.json = FALSE], [base EXCEPT !.jsonrpc = "1.0"]}

\* MCPClient.send, lines 138-140 and 149-156: what one attempt makes of the
\* response; a status below 400 passes raise_for_status and response.json()
\* is returned, a 5xx is a failure (recorded, then retried or raised)
send_ends(response) ==
    IF response.status < 400 THEN "returned" ELSE "failed"

NoExchange ==
    [ request |-> build_request("PING", "referee:REF01", "None"),
      status  |-> 0,
      code    |-> 0,
      invoked |-> FALSE,
      send    |-> "none" ]

IdleServer ==
    /\ server = NewServer(TRUE)
    /\ exchange = NoExchange

----------------------------------------------------------------------------
(* agents/league_manager/main.py, handlers.py *)

\* check_and_start_league: the defaults of the configuration
min_players_to_start == 4
min_referees == 1

\* generate_schedule: the while loop from the pairings left and the rounds made
RECURSIVE while_remaining(_, _)
while_remaining(rem, sched) ==
    IF rem = <<>> THEN sched
    ELSE LET r == pack_round(rem, 1, Len(sched),
                     [ round_matches |-> <<>>, players_in_round |-> {},
                       remaining |-> rem ])
         IN  while_remaining(r.remaining,
                             IF r.round_matches # <<>>
                             THEN Append(sched, r.round_matches)
                             ELSE sched)

\* Scheduler.generate_schedule, as one call
generate_schedule(ids) ==
    IF Len(ids) < 2 THEN <<>> ELSE while_remaining(combinations2(ids), <<>>)

\* LeagueManager()
NewLeague ==
    [ registered_players  |-> <<>>,
      registered_referees |-> <<>>,
      league_started      |-> FALSE,
      schedule            |-> <<>>,
      current_round       |-> 0,
      standings           |-> <<>>,
      tasks     |-> 0,      \* check_and_start_league tasks created, not yet run
      sleeping  |-> 0,      \* check_and_start_league tasks in their sleep
      rounds_started |-> <<>>,  \* history: the rounds start_round announced
      reported  |-> {},     \* history: the matches whose result was reported
      completed |-> FALSE,  \* history: complete_league ran
      applicants |-> <<>>,  \* history: per registered player, the agent whose request it was
      waiting   |-> {},     \* the agents whose registration send has not returned yet
      start_calls |-> 0,    \* history: the calls of start_league
      generations |-> 0 ]   \* history: the calls of generate_schedule

\* handle_player_registration
handle_player_registration(lg, sender) ==
    LET player_id == Len(lg.registered_players) + 1
    IN  [lg EXCEPT !.registered_players = Append(@, player_id),
                   !.standings = register_player(@, player_id, "Unknown"),
                   !.tasks = @ + 1,
                   !.applicants = Append(@, sender)]

\* the agents that sent a registration, numbered in the order of their first request
Applicants(lg) == {lg.applicants[i] : i \in 1..Len(lg.applicants)}

\* the players registered for the requests of agent a
entries_of(lg, a) == {i \in 1..Len(lg.applicants) : lg.applicants[i] = a}

\* handle_referee_registration
handle_referee_registration(lg) ==
    [lg EXCEPT !.registered_referees = Append(@, RefereeId(Len(@) + 1)),
               !.tasks = @ + 1]

\* check_and_start_league, lines 76-80: the test before the sleep
may_start(lg) ==
    /\ Len(lg.registered_players) >= min_players_to_start
    /\ Len(lg.registered_referees) >= min_referees
    /\ ~lg.league_started

\* Scheduler.get_current_round: the index of the round, 0 for None
get_current_round(lg) ==
    IF lg.current_round < Len(lg.schedule) THEN lg.current_round + 1 ELSE 0

\* Scheduler.advance_round
advance_round(lg) == [lg EXCEPT !.current_round = @ + 1]

\* LeagueManagerHandlers.complete_league
complete_league(lg) == [lg EXCEPT !.completed = TRUE]

\* LeagueManagerHandlers.start_round
start_round(lg) ==
    LET lg1 == [lg EXCEPT !.schedule = assign_referees(@, lg.registered_referees)]
    IN  IF get_current_round(lg1) = 0
        THEN complete_league(lg1)
        ELSE [lg1 EXCEPT !.rounds_started = Append(@, lg1.current_round + 1)]

start_league_NoStartedTest(lg) ==
    start_round([lg EXCEPT !.league_started = TRUE,
                           !.schedule = generate_schedule(lg.registered_players),
                           !.current_round = 0,
                           !.start_calls = @ + 1,
                           !.generations = @ + 1])

\* LeagueManager.start_league
start_league(lg) ==
    IF lg.league_started THEN [lg EXCEPT !.start_calls = @ + 1]
    ELSE start_round([lg EXCEPT !.league_started = TRUE,
                                !.schedule = generate_schedule(lg.registered_players),
                                !.current_round = 0,
                                !.start_calls = @ + 1,
                                !.generations = @ + 1])

\* LeagueManagerHandlers.handle_match_result
handle_match_result(lg, match, player_a_result, player_b_result) ==
    [lg EXCEPT !.standings = update_result(
                                 update_result(@, match.player_a, player_a_result),
                                 match.player_b, player_b_result),
               !.reported = @ \cup {match.match_id}]

\* how a match can go at its referee: the two choices and the number drawn,
\* or no choice in time
RefereeCases ==
    {<<a, b, n>> : a \in ParityChoice, b \in ParityChoice, n \in {3, 4}}
        \cup {<<NoChoice, NoChoice, 0>>}

\* conduct_match: the result dict the referee returns for a match of the
\* schedule that went as the case says
conduct_match(match, case) ==
    LET ms == [ match_id        |-> match.match_id,
                round_id        |-> match.round_id,
                player_a        |-> match.player_a,
                player_b        |-> match.player_b,
                player_a_choice |-> case[1],
                player_b_choice |-> case[2] ]
    IN  IF case[1] = NoChoice
        THEN technical_loss_result(ms, "choice_timeout")
        ELSE determine_winner(ms, case[3])

\* a dict with no key
EmptyDict == <<>>

\* RefereeHandlers._report_result: the payload of the MATCH_RESULT_REPORT sent
\* for a result dict
report_result(result) ==
    [ match_id        |-> get(result, "match_id", "None"),
      round_id        |-> get(result, "round_id", "None"),
      player_a_id     |-> get(get(result, "player_a", EmptyDict), "id", NoneId),
      player_b_id     |-> get(get(result, "player_b", EmptyDict), "id", NoneId),
      player_a_choice |-> get(result, "player_a_choice", "None"),
      player_b_choice |-> get(result, "player_b_choice", "None"),
      drawn_number    |-> get(result, "drawn_number", "None"),
      winner_id       |-> get(result, "winner_id", NoneId),
      player_a_result |-> get(result, "player_a_result", "None"),
      player_b_result |-> get(result, "player_b_result", "None") ]

\* handle_match_result, lines 108-112: what the handler reads of the params
reported_match(params) ==
    [ match_id |-> params.match_id,
      player_a |-> params.player_a_id,
      player_b |-> params.player_b_id ]

IdleLeague == league = NewLeague

----------------------------------------------------------------------------
(* simulation/league.py, player.py, referee.py *)

\* the players registered, in registration order, and the strategy names
SimPlayers == <<1, 2, 3>>
SimPlayerIds == {SimPlayers[i] : i \in 1..Len(SimPlayers)}
Strategies == {"random", "deterministic_even", "deterministic_odd", "alternating", "adaptive"}

\* the numbers a match can draw: one odd, one even
DrawnValues == {3, 4}

\* Player(player_id, display_name, strategy)
Player(player_id, strategy) ==
    [ player_id    |-> player_id,
      display_name |-> IdText(player_id),
      strategy     |-> strategy,
      wins |-> 0, draws |-> 0, losses |-> 0, points |-> 0,
      last_choice  |-> "even",
      opponent_history |-> [o \in SimPlayerIds |-> <<>>] ]

\* list.count(x)
count(list, x) == Cardinality({i \in 1..Len(list) : list[i] = x})

\* random.choice(["even", "odd"]): either value
random_choice == ParityChoice

\* Player._adaptive_choice: the values it can return
adaptive_choice(player, opponent_id) ==
    LET opp_hist == player.opponent_history[opponent_id]
    IN  IF Len(opp_hist) < 2
        THEN random_choice
        ELSE IF count(opp_hist, "even") >= count(opp_hist, "odd")
        THEN {"even"} ELSE {"odd"}

choose_parity_AlternatingMisspelt(player, opponent_id) ==
    CASE player.strategy = "random" -> {<<c, player>> : c \in random_choice}
      [] player.strategy = "deterministic_even" -> {<<"even", player>>}
      [] player.strategy = "deterministic_odd" -> {<<"odd", player>>}
      [] player.strategy = "adaptive" ->
            {<<c, player>> : c \in adaptive_choice(player, opponent_id)}
      [] OTHER -> {<<c, player>> : c \in random_choice}

\* Player.choose_parity: the pairs (value returned, player afterwards) possible
choose_parity(player, opponent_id) ==
    CASE player.strategy = "random" -> {<<c, player>> : c \in random_choice}
      [] player.strategy = "deterministic_even" -> {<<"even", player>>}
      [] player.strategy = "deterministic_odd" -> {<<"odd", player>>}
      [] player.strategy = "alternating" ->
            {<<player.last_choice,
               [player EXCEPT !.last_choice = IF @ = "even" THEN "odd" ELSE "even"]>>}
      [] player.strategy = "adaptive" ->
            {<<c, player>> : c \in adaptive_choice(player, opponent_id)}
      [] OTHER -> {<<c, player>> : c \in random_choice}

\* Player.record_result
record_result(player, result, opponent_id, opponent_choice) ==
    LET p1 == IF result = "WIN"
              THEN [player EXCEPT !.wins = @ + 1, !.points = @ + 3]
              ELSE IF result = "DRAW"
              THEN [player EXCEPT !.draws = @ + 1, !.points = @ + 1]
              ELSE [player EXCEPT !.losses = @ + 1]
    IN  [p1 EXCEPT !.opponent_history[opponent_id] = Append(@, opponent_choice)]

\* Referee.conduct_match, the two choose_parity calls made (pick_a, pick_b) and
\* the number drawn: the players afterwards and the dict returned
sim_conduct_match(pick_a, pick_b, match_id, drawn_number) ==
    LET player_a == pick_a[2]
        player_b == pick_b[2]
        o == determine_match_outcome(player_a.player_id, pick_a[1],
                                     player_b.player_id, pick_b[1], drawn_number)
    IN  [ player_a |-> record_result(player_a, o.player_a_result,
                                     player_b.player_id, pick_b[1]),
          player_b |-> record_result(player_b, o.player_b_result,
                                     player_a.player_id, pick_a[1]),
          result   |-> [ match_id      |-> match_id,
                         player_a      |-> player_a.player_id,
                         player_b      |-> player_b.player_id,
                         choice_a      |-> pick_a[1],
                         choice_b      |-> pick_b[1],
                         drawn_number  |-> o.drawn_number,
                         number_parity |-> o.number_parity,
                         result_a      |-> o.player_a_result,
                         result_b      |-> o.player_b_result,
                         winner        |-> o.winner_id ] ]

\* LeagueSimulation.generate_schedule, the matches in the order they are run
sim_schedule == flatten(generate_schedule(SimPlayers))

\* LeagueSimulation after the registrations and generate_schedule
NewRun(strategies) ==
    [ players       |-> [p \in SimPlayerIds |-> Player(p, strategies[p])],
      match_results |-> <<>> ]

\* _run_league_sequential: the body of the inner loop for the next match
run_match(run, ref_ids, pick_a, pick_b, drawn_number) ==
    LET match == sim_schedule[Len(run.match_results) + 1]
        match_idx == match.match_id[2] - 1
        referee_id == ref_ids[(match_idx % Len(ref_ids)) + 1]
        r == sim_conduct_match(pick_a, pick_b, match.match_id, drawn_number)
    IN  [ players       |-> [run.players EXCEPT ![match.player_a] = r.player_a,
                                                ![match.player_b] = r.player_b],
          match_results |-> Append(run.match_results,
                                   [ result    |-> r.result,
                                     round_num |-> match.round_id,
                                     referee   |-> referee_id ]) ]

\* LeagueSimulation.get_standings
sim_get_standings(run) ==
    LET standings_list ==
            [i \in 1..Len(SimPlayers) |->
                LET player == run.players[SimPlayers[i]]
                IN  [ player_id    |-> player.player_id,
                      display_name |-> player.display_name,
                      strategy     |-> player.strategy,
                      played       |-> player.wins + player.draws + player.losses,
                      wins         |-> player.wins,
                      draws        |-> player.draws,
                      losses       |-> player.losses,
                      points       |-> player.points ]]
        sorted_list == sorted(standings_list)
    IN  [i \in 1..Len(sorted_list) |-> [ rank |-> i, entry |-> sorted_list[i] ]]

Runs == {1, 2}

IdleSim ==
    sim = [ referee_ids |-> <<RefereeId(1)>>,
            drawn       |-> [k \in 1..Len(sim_schedule) |-> 4],
            runs        |-> [r \in Runs |-> NewRun([p \in SimPlayerIds |-> "random"])] ]

----------------------------------------------------------------------------
(* SpecBreaker: one CircuitBreaker under any sequence of calls and time    *)

NoCall == [op |-> "none", pre |-> "CLOSED", result |-> TRUE, at |-> 0]

Call(op, pre, result) == [op |-> op, pre |-> pre, result |-> result, at |-> now]

InitBreaker ==
    /\ now = 0
    /\ \E ft \in 1..MaxThreshold, st \in 1..MaxThreshold, to \in 1..MaxTimeoutSeconds :
           cb = CircuitBreaker(ft, st, to, 0)
    /\ lastCall = NoCall
    /\ streak = 0
    /\ streakFrom = "CLOSED"
    /\ hoSucc = 0
    /\ IdleSched
    /\ IdleGame
    /\ IdleClient
    /\ IdleMatch
    /\ IdleStand
    /\ IdleAgent
    /\ IdleServer
    /\ IdleLeague
    /\ IdleSim

\* time passes
Tick ==
    /\ now < MaxTime
    /\ now' = now + 1
    /\ UNCHANGED breakerVars
    /\ BreakerFrame

\* history of the HALF_OPEN episode: a fresh count when the breaker enters HALF_OPEN
EnterCount(b, b2) == IF b.state # "HALF_OPEN" /\ b2.state = "HALF_OPEN" THEN 0 ELSE hoSucc

RecordSuccess ==
    /\ cb' = record_success(cb, now)
    /\ lastCall' = Call("record_success", cb.state, TRUE)
    /\ streak' = 0
    /\ hoSucc' = IF cb.state = "HALF_OPEN" THEN hoSucc + 1 ELSE hoSucc
    /\ UNCHANGED <<now, streakFrom>>
    /\ BreakerFrame

RecordFailure ==
    /\ cb.failure_count < MaxFailures
    /\ cb' = record_failure(cb, now)
    /\ lastCall' = Call("record_failure", cb.state, TRUE)
    /\ streak' = streak + 1
    /\ streakFrom' = IF streak = 0 THEN cb.state ELSE streakFrom
    /\ UNCHANGED <<now, hoSucc>>
    /\ BreakerFrame

CanExecute ==
    /\ cb' = state(cb, now)
    /\ lastCall' = Call("can_execute", cb.state, can_execute(cb, now))
    /\ hoSucc' = EnterCount(cb, cb')
    /\ UNCHANGED <<now, streak, streakFrom>>
    /\ BreakerFrame

\* get_status reads the state property too
GetStatus ==
    /\ cb' = state(cb, now)
    /\ lastCall' = Call("get_status", cb.state, TRUE)
    /\ hoSucc' = EnterCount(cb, cb')
    /\ UNCHANGED <<now, streak, streakFrom>>
    /\ BreakerFrame

NextBreaker ==
    \/ Tick
    \/ RecordSuccess
    \/ RecordFailure
    \/ CanExecute
    \/ GetStatus

SpecBreaker == InitBreaker /\ [][NextBreaker]_vars

----------------------------------------------------------------------------
(* Claims about the circuit breaker (SpecBreaker) *)

\* time elapsed between the last failure and the last call
ElapsedAtCall == lastCall.at - cb.last_failure_time

\* C5: after failure_threshold consecutive record_failure calls (no
\* record_success in between) the breaker is OPEN; can_execute() returns false
\* at every time earlier than timeout_seconds after the last failure, and at or
\* after timeout_seconds it returns true with the state HALF_OPEN.
C5_OpenUntilTimeout ==
    streak >= cb.failure_threshold =>
        /\ lastCall.op = "record_failure" => cb.state = "OPEN"
        /\ lastCall.op = "can_execute" =>
              /\ ElapsedAtCall < cb.timeout_seconds =>
                    lastCall.result = FALSE /\ cb.state = "OPEN"
              /\ ElapsedAtCall >= cb.timeout_seconds =>
                    lastCall.result = TRUE /\ cb.state = "HALF_OPEN"

\* C5 witness: a breaker that was CLOSED took failure_threshold (at least 2)
\* failures in a row, and the first can_execute at the timeout returned true.
C5_Witness ==
    /\ streakFrom = "CLOSED"
    /\ cb.failure_threshold >= 2
    /\ streak = cb.failure_threshold
    /\ lastCall.op = "can_execute"
    /\ lastCall.pre = "OPEN"
    /\ ElapsedAtCall = cb.timeout_seconds
    /\ lastCall.result = TRUE

\* C6: in HALF_OPEN, the success_threshold-th record_success in a row moves the
\* breaker to CLOSED with failure and success counters zero; fewer successes
\* leave it HALF_OPEN.
C6_HalfOpenCloses ==
    (lastCall.op = "record_success" /\ lastCall.pre = "HALF_OPEN") =>
        /\ hoSucc >= cb.success_threshold =>
              cb.state = "CLOSED" /\ cb.failure_count = 0 /\ cb.success_count = 0
        /\ hoSucc < cb.success_threshold =>
              cb.state = "HALF_OPEN" /\ cb.success_count = hoSucc

\* C6 witness: a breaker with success_threshold 2 closed by its second success.
C6_Witness ==
    /\ lastCall.op = "record_success"
    /\ lastCall.pre = "HALF_OPEN"
    /\ cb.success_threshold >= 2
    /\ hoSucc = cb.success_threshold
    /\ cb.state = "CLOSED"

\* C7: one record_failure in HALF_OPEN moves the breaker to OPEN, whatever the
\* success count and failure_threshold, and a can_execute() before the timeout
\* then returns false.
C7_HalfOpenFailureOpens ==
    [][ /\ (lastCall'.op = "record_failure" /\ cb.state = "HALF_OPEN") =>
              cb'.state = "OPEN"
        /\ (lastCall.op = "record_failure" /\ lastCall.pre = "HALF_OPEN"
              /\ lastCall'.op = "can_execute"
              /\ now - cb.last_failure_time < cb.timeout_seconds) =>
              (lastCall'.result = FALSE /\ cb'.state = "OPEN") ]_vars

\* C7 witness: a failure in HALF_OPEN after a success had accumulated, under a
\* failure_threshold of 2 or more
C7_Witness ==
    /\ lastCall.op = "record_failure"
    /\ lastCall.pre = "HALF_OPEN"
    /\ cb.success_count >= 1
    /\ cb.failure_threshold >= 2
    /\ cb.state = "OPEN"

\* C8: every change of the breaker's state is one of CLOSED -> OPEN (a failure
\* bringing the count to the threshold), OPEN -> HALF_OPEN (timeout elapsed),
\* HALF_OPEN -> CLOSED (a success bringing the count to the threshold),
\* HALF_OPEN -> OPEN (a failure); a record_success while OPEN changes nothing.
C8_TransitionTable ==
    [][ /\ cb'.state # cb.state =>
              \/ /\ cb.state = "CLOSED" /\ cb'.state = "OPEN"
                 /\ lastCall'.op = "record_failure"
                 /\ cb'.failure_count >= cb.failure_threshold
              \/ /\ cb.state = "OPEN" /\ cb'.state = "HALF_OPEN"
                 /\ lastCall'.op \in {"can_execute", "get_status"}
                 /\ now - cb.last_failure_time >= cb.timeout_seconds
              \/ /\ cb.state = "HALF_OPEN" /\ cb'.state = "CLOSED"
                 /\ lastCall'.op = "record_success"
                 /\ hoSucc' >= cb.success_threshold
              \/ /\ cb.state = "HALF_OPEN" /\ cb'.state = "OPEN"
                 /\ lastCall'.op = "record_failure"
        /\ (lastCall'.op = "record_success" /\ cb.state = "OPEN") => cb' = cb ]_vars

\* C8 witness: a record_success arrived while the breaker was OPEN
C8_Witness ==
    /\ lastCall.op = "record_success"
    /\ lastCall.pre = "OPEN"
    /\ cb.state = "OPEN"

----------------------------------------------------------------------------
(* SpecSched: Scheduler.generate_schedule on every list of distinct ids    *)

IdleBreaker ==
    /\ cb = CircuitBreaker(DEFAULT_FAILURE_THRESHOLD, DEFAULT_SUCCESS_THRESHOLD,
                           DEFAULT_TIMEOUT_SECONDS, 0)
    /\ lastCall = NoCall
    /\ streak = 0
    /\ streakFrom = "CLOSED"
    /\ hoSucc = 0

InitSched ==
    /\ now = 0
    /\ IdleBreaker
    /\ IdleGame
    /\ IdleClient
    /\ IdleMatch
    /\ IdleStand
    /\ IdleAgent
    /\ IdleServer
    /\ IdleLeague
    /\ IdleSim
    /\ player_ids \in PlayerLists
    /\ remaining = <<>>
    /\ schedule = <<>>
    /\ schedPc = "call"
    /\ referee_ids = <<>>

\* generate_schedule up to the while loop
GenerateSchedule ==
    /\ schedPc = "call"
    /\ schedule' = <<>>
    /\ IF Len(player_ids) < 2
       THEN remaining' = <<>> /\ schedPc' = "done"
       ELSE remaining' = combinations2(player_ids) /\ schedPc' = "loop"
    /\ UNCHANGED <<player_ids, referee_ids>>
    /\ SchedFrame

\* one iteration of `while remaining`
PackRound ==
    /\ schedPc = "loop"
    /\ remaining # <<>>
    /\ LET r == pack_round(remaining, 1, Len(schedule),
                   [ round_matches |-> <<>>, players_in_round |-> {},
                     remaining |-> remaining ])
       IN  /\ remaining' = r.remaining
           /\ schedule' = IF r.round_matches # <<>>
                          THEN Append(schedule, r.round_matches)
                          ELSE schedule
    /\ UNCHANGED <<player_ids, schedPc, referee_ids>>
    /\ SchedFrame

\* the while loop ends: return self.schedule
ReturnSchedule ==
    /\ schedPc = "loop"
    /\ remaining = <<>>
    /\ schedPc' = "done"
    /\ UNCHANGED <<player_ids, remaining, schedule, referee_ids>>
    /\ SchedFrame

\* assign_referees(ids) on the schedule generated
AssignReferees(ids) ==
    /\ schedPc = "done"
    /\ referee_ids' = ids
    /\ schedule' = assign_referees(schedule, ids)
    /\ schedPc' = "assigned"
    /\ UNCHANGED <<player_ids, remaining>>
    /\ SchedFrame

NextSched ==
    \/ GenerateSchedule
    \/ PackRound
    \/ ReturnSchedule
    \/ \E ids \in RefereeLists : AssignReferees(ids)

SpecSched == InitSched /\ [][NextSched]_vars

\* the positions in the flattened schedule where players p and q meet
Meetings(p, q) ==
    LET all == flatten(schedule)
    IN  {k \in 1..Len(all) : {all[k].player_a, all[k].player_b} = {p, q}}

PlayerSet == {player_ids[i] : i \in 1..Len(player_ids)}

\* C3: for n even, n >= 2, generate_schedule returns exactly n-1 rounds of
\* exactly n/2 matches each.
C3_EvenRounds ==
    (schedPc = "done" /\ Len(player_ids) >= 2 /\ Len(player_ids) % 2 = 0) =>
        /\ Len(schedule) = Len(player_ids) - 1
        /\ \A r \in 1..Len(schedule) : 2 * Len(schedule[r]) = Len(player_ids)

\* C4: in the schedule returned for n >= 2 distinct ids no player appears in two
\* matches of one round, and every unordered pair of players meets in exactly
\* one match across all rounds.
C4_DisjointAndComplete ==
    (schedPc = "done" /\ Len(player_ids) >= 2) =>
        /\ \A r \in 1..Len(schedule) : \A i, j \in 1..Len(schedule[r]) :
              i # j => {schedule[r][i].player_a, schedule[r][i].player_b}
                         \cap {schedule[r][j].player_a, schedule[r][j].player_b} = {}
        /\ \A r \in 1..Len(schedule) : \A i \in 1..Len(schedule[r]) :
              schedule[r][i].player_a # schedule[r][i].player_b
        /\ \A p, q \in PlayerSet : p # q => Cardinality(Meetings(p, q)) = 1
        /\ \A k \in 1..Len(flatten(schedule)) :
              {flatten(schedule)[k].player_a, flatten(schedule)[k].player_b} \subseteq PlayerSet

\* C4 witness: a finished schedule for five players, with a round of two matches
C4_Witness ==
    /\ schedPc = "done"
    /\ Len(player_ids) = 5
    /\ \E r \in 1..Len(schedule) : Len(schedule[r]) = 2

----------------------------------------------------------------------------
(* SpecGame: EvenOddGame.determine_match_outcome on every pair of choices  *)

InitGame ==
    /\ now = 0
    /\ IdleBreaker
    /\ IdleSched
    /\ IdleClient
    /\ IdleMatch
    /\ IdleStand
    /\ IdleAgent
    /\ IdleServer
    /\ IdleLeague
    /\ IdleSim
    /\ \E a \in PlayerPool, ca \in ParityChoice, cb2 \in ParityChoice :
           \E b \in PlayerPool \ {a} :
               gameArgs = [ a_id |-> a, a_choice |-> ca, b_id |-> b, b_choice |-> cb2 ]
    /\ outcome = NoOutcome

\* determine_match_outcome with drawn_number None: draw_number() picks any number
\* of the range; with drawn_number given, that number
DetermineMatchOutcome ==
    /\ outcome = NoOutcome
    /\ \E n \in min_number..max_number :
           outcome' = determine_match_outcome(gameArgs.a_id, gameArgs.a_choice,
                                              gameArgs.b_id, gameArgs.b_choice, n)
    /\ UNCHANGED gameArgs
    /\ GameFrame

NextGame == DetermineMatchOutcome

SpecGame == InitGame /\ [][NextGame]_vars

\* the same match seen from the other side
Swapped ==
    determine_match_outcome(gameArgs.b_id, gameArgs.b_choice,
                            gameArgs.a_id, gameArgs.a_choice, outcome.drawn_number)

\* C2: the outcome is exactly one of A WIN / B LOSS with winner A, A LOSS / B WIN
\* with winner B, DRAW / DRAW with no winner; it is a draw iff both choices equal
\* the drawn number's parity or neither does; swapping the players swaps the results.
C2_OutcomeTotalSymmetric ==
    outcome # NoOutcome =>
        LET parity == IF outcome.drawn_number \in {n \in min_number..max_number : n % 2 = 0}
                      THEN "even" ELSE "odd"
            aMatch == gameArgs.a_choice = parity
            bMatch == gameArgs.b_choice = parity
            aWins  == /\ outcome.player_a_result = "WIN"
                      /\ outcome.player_b_result = "LOSS"
                      /\ outcome.winner_id = gameArgs.a_id
            bWins  == /\ outcome.player_a_result = "LOSS"
                      /\ outcome.player_b_result = "WIN"
                      /\ outcome.winner_id = gameArgs.b_id
            draw   == /\ outcome.player_a_result = "DRAW"
                      /\ outcome.player_b_result = "DRAW"
                      /\ outcome.winner_id = NoneId
        IN  /\ Cardinality({k \in 1..3 : <<aWins, bWins, draw>>[k]}) = 1
            /\ draw <=> ((aMatch /\ bMatch) \/ (~aMatch /\ ~bMatch))
            /\ aWins <=> (aMatch /\ ~bMatch)
            /\ Swapped.player_a_result = outcome.player_b_result
            /\ Swapped.player_b_result = outcome.player_a_result
            /\ Swapped.winner_id = outcome.winner_id

\* C2 witness: both players chose the wrong parity and the match is a draw
C2_Witness ==
    /\ outcome # NoOutcome
    /\ outcome.drawn_number = 7
    /\ gameArgs.a_choice = "even"
    /\ gameArgs.b_choice = "even"
    /\ outcome.player_a_result = "DRAW"

----------------------------------------------------------------------------
(* SpecClient: MCPClient.send calls over the shared registry               *)

InitClient ==
    /\ now = 0
    /\ IdleBreaker
    /\ IdleSched
    /\ IdleGame
    /\ IdleClient
    /\ IdleMatch
    /\ IdleStand
    /\ IdleAgent
    /\ IdleServer
    /\ IdleLeague
    /\ IdleSim

\* the instants at which something can newly happen: a sleep ends, an OPEN
\* breaker reaches its timeout
ClientDeadlines ==
    {calls[t].timer : t \in {u \in Callers : calls[u].pc = "sleep"}}
    \cup {registry[e].last_failure_time + registry[e].timeout_seconds :
              e \in {f \in Endpoints : registry[f].state = "OPEN"}}

\* time passes, up to the next of those instants
ClientTick ==
    /\ \E d \in ClientDeadlines :
          /\ d > now
          /\ d <= MaxClock
          /\ \A d2 \in ClientDeadlines : d2 > now => d <= d2
          /\ now' = d
    /\ UNCHANGED clientVars
    /\ ClientFrame

\* history of the records on one breaker, which went from b to b2 in a step that
\* recorded a failure, a success or nothing: the failures since the breaker
\* was last CLOSED by a success or a transition (where the code resets
\* _failure_count), the successes since it last entered HALF_OPEN or CLOSED
\* (where the code resets _success_count)
Tallied(ty, b, b2, record) ==
    [ failures  |-> IF record = "failure" THEN ty.failures + 1
                    ELSE IF record = "success" /\ b2.state = "CLOSED" THEN 0
                    ELSE ty.failures,
      successes |-> IF b.state # b2.state /\ b2.state \in {"HALF_OPEN", "CLOSED"} THEN 0
                    ELSE IF record = "success" /\ b.state = "HALF_OPEN" THEN ty.successes + 1
                    ELSE ty.successes ]

\* send, lines 114-133: the breaker is looked up (created on first use) and asked;
\* the call either raises CircuitBreakerOpen or issues its first HTTP attempt
SendCall(t, e) ==
    /\ calls[t].pc \in {"idle", "returned", "raised"}
    /\ MayCall(t)
    /\ sent < MaxSends
    /\ sent' = sent + 1
    /\ LET reg == registry_get(registry, e, now)
           c   == [IdleCall EXCEPT !.endpoint = e, !.no = sent + 1,
                                   !.fc0 = reg[e].failure_count]
       IN  IF admits(reg[e], now)
           THEN /\ registry' = [reg EXCEPT ![e] = state(reg[e], now)]
                /\ calls' = [calls EXCEPT ![t] =
                                [c EXCEPT !.pc = "post", !.attempt = 0, !.posts = 1]]
           ELSE /\ registry' = [reg EXCEPT ![e] = state(reg[e], now)]
                /\ calls' = [calls EXCEPT ![t] =
                                [c EXCEPT !.pc = "raised", !.error = "CircuitBreakerOpen"]]
    /\ tally' = [tally EXCEPT ![e] =
                     Tallied(@, registry_get(registry, e, now)[e], registry'[e], "none")]
    /\ UNCHANGED now
    /\ ClientFrame

\* the call after a retryable failure of its attempt: sleep and go on, or leave
\* the loop and raise last_error (a 5xx on the last attempt re-raises directly)
AfterRetryable(c, o) ==
    LET c1 == [c EXCEPT !.last_error = ErrorOf(o),
                        !.failed = @ + 1,
                        !.recorded = @ + 1]
    IN  IF sleeps_after(c.attempt)
        THEN [c1 EXCEPT !.pc = "sleep",
                        !.timer = now + backoff_delay(c.attempt),
                        !.sleeps = Append(@, backoff_delay(c.attempt))]
        ELSE IF o # "5xx" /\ (c.attempt + 1) \in attempt_range
        THEN [c1 EXCEPT !.pc = "post", !.attempt = @ + 1, !.posts = @ + 1]
        ELSE [c1 EXCEPT !.pc = "raised", !.error = ErrorOf(o)]

\* lines 138-140: a 2xx response; record_success, then response.json()
AttemptSucceeds(t, o) ==
    /\ calls[t].pc = "post"
    /\ o \in {"ok", "malformed"}
    /\ registry' = [registry EXCEPT ![calls[t].endpoint] = record_success(@, now)]
    /\ tally' = [tally EXCEPT ![calls[t].endpoint] =
                     Tallied(@, registry[calls[t].endpoint],
                             registry'[calls[t].endpoint], "success")]
    /\ calls' = [calls EXCEPT ![t] =
           IF o = "ok"
           THEN [@ EXCEPT !.pc = "returned"]
           ELSE [@ EXCEPT !.pc = "raised", !.error = ErrorOf(o)]]
    /\ UNCHANGED <<now, sent>>
    /\ ClientFrame

\* lines 142-147, 149-155, 158-163: a timeout, a connect error or a 5xx;
\* record_failure, then the backoff sleep or the end
AttemptFailsRetryable(t, o) ==
    /\ calls[t].pc = "post"
    /\ o \in {"timeout", "connect", "5xx"}
    /\ registry' = [registry EXCEPT ![calls[t].endpoint] = record_failure(@, now)]
    /\ tally' = [tally EXCEPT ![calls[t].endpoint] =
                     Tallied(@, registry[calls[t].endpoint],
                             registry'[calls[t].endpoint], "failure")]
    /\ calls' = [calls EXCEPT ![t] = AfterRetryable(@, o)]
    /\ UNCHANGED <<now, sent>>
    /\ ClientFrame

\* lines 149-156: a 4xx status is raised at once; the breaker is not told
AttemptRejected(t) ==
    /\ calls[t].pc = "post"
    /\ calls' = [calls EXCEPT ![t] =
           [@ EXCEPT !.pc = "raised", !.last_error = ErrorOf("4xx"),
                     !.error = ErrorOf("4xx")]]
    /\ UNCHANGED <<now, registry, sent, tally>>
    /\ ClientFrame

\* the sleep is over: the next iteration of the loop issues its attempt, or the
\* range is exhausted and last_error is raised
Wake(t) ==
    /\ calls[t].pc = "sleep"
    /\ now >= calls[t].timer
    /\ calls' = [calls EXCEPT ![t] =
           IF (@.attempt + 1) \in attempt_range
           THEN [@ EXCEPT !.pc = "post", !.attempt = @ + 1, !.posts = @ + 1, !.timer = 0]
           ELSE [@ EXCEPT !.pc = "raised", !.error = @.last_error, !.timer = 0]]
    /\ UNCHANGED <<now, registry, sent, tally>>
    /\ ClientFrame

\* the send calls of the callers in T, interleaved at their awaits
NextCalls(T) ==
    \/ ClientTick
    \/ \E t \in T, e \in Endpoints : SendCall(t, e)
    \/ \E t \in T, o \in AttemptOutcomes : AttemptSucceeds(t, o)
    \/ \E t \in T, o \in AttemptOutcomes : AttemptFailsRetryable(t, o)
    \/ \E t \in T : AttemptRejected(t)
    \/ \E t \in T : Wake(t)

\* one caller, one send after the other
NextClient == NextCalls({"t1"})

SpecClient == InitClient /\ [][NextClient]_vars

\* the send calls of two coroutines on one event loop to one endpoint, at most
\* MaxConcurrentSends of them in all: the first call of each coroutine at any
\* time, the later calls one at a time
ConcurrentSendCall(t, e) ==
    /\ sent < MaxConcurrentSends
    /\ sent >= Cardinality(Callers) => \A u \in Callers : calls[u].pc \in {"returned", "raised"}
    /\ SendCall(t, e)

NextClientConcurrent ==
    \/ ClientTick
    \/ \E t \in Callers : ConcurrentSendCall(t, "e1")
    \/ \E t \in Callers, o \in AttemptOutcomes : AttemptSucceeds(t, o)
    \/ \E t \in Callers, o \in AttemptOutcomes : AttemptFailsRetryable(t, o)
    \/ \E t \in Callers : AttemptRejected(t)
    \/ \E t \in Callers : Wake(t)

SpecClientConcurrent == InitClient /\ [][NextClientConcurrent]_vars

\* the exceptions of the failures send retries
RetryableErrors == {"TimeoutException", "ConnectError", "HTTPStatusError5xx"}

\* C9: a send to an endpoint whose breaker is OPEN with its timeout not elapsed
\* raises CircuitBreakerOpen, issues no HTTP request and leaves the registry
\* (the breaker's state, counters and times) as it was.
C9_OpenFailsFast ==
    [][ \A t \in Callers :
          (sent' = sent + 1 /\ calls'[t].no = sent') =>
              LET b == registry[calls'[t].endpoint]
              IN  (b.state = "OPEN" /\ now - b.last_failure_time < b.timeout_seconds) =>
                      /\ calls'[t].pc = "raised"
                      /\ calls'[t].error = "CircuitBreakerOpen"
                      /\ calls'[t].posts = 0
                      /\ registry' = registry ]_vars

\* C9 witness: a send was refused by an OPEN breaker before its timeout
C9_Witness ==
    \E t \in Callers :
        /\ calls[t].pc = "raised"
        /\ calls[t].error = "CircuitBreakerOpen"
        /\ registry[calls[t].endpoint].state = "OPEN"
        /\ now - registry[calls[t].endpoint].last_failure_time < DEFAULT_TIMEOUT_SECONDS

\* C10: one send issues at most max_retries + 1 HTTP attempts; when every attempt
\* fails with a timeout, a connect error or a 5xx, the call ends only after
\* exactly max_retries + 1 attempts, raising the last attempt's error, with one
\* breaker failure recorded per failed attempt.
C10_RetriesBounded ==
    \A t \in Callers :
        LET c == calls[t]
        IN  /\ c.posts <= DEFAULT_MAX_RETRIES + 1
            /\ (c.pc \in {"returned", "raised"} /\ c.posts >= 1 /\ c.failed = c.posts) =>
                  /\ c.pc = "raised"
                  /\ c.posts = DEFAULT_MAX_RETRIES + 1
                  /\ c.error \in RetryableErrors
                  /\ c.error = c.last_error
                  /\ c.recorded = c.posts
                  /\ registry[c.endpoint].failure_count = c.fc0 + c.posts

\* C10 witness: a call ended after four failed attempts, the last one a timeout
C10_Witness ==
    \E t \in Callers :
        /\ calls[t].pc = "raised"
        /\ calls[t].failed = DEFAULT_MAX_RETRIES + 1
        /\ calls[t].error = "TimeoutException"
        /\ calls[t].fc0 >= 1

\* C11: the sleep after the failed attempt with 0-based index k is
\* backoff_seconds * 2^k: the delays of one send grow as b, 2b, 4b, ...
C11_ExponentialBackoff ==
    \A t \in Callers :
        \A i \in 1..Len(calls[t].sleeps) :
            calls[t].sleeps[i] = DEFAULT_BACKOFF_SECONDS * 2^(i - 1)

\* the exceptions of the failures send does not retry
NonRetryableErrors == {"HTTPStatusError4xx", "JSONDecodeError"}

\* C12: a send whose attempt ended in a 4xx response or a malformed body has
\* ended with that error raised, after no further attempt and no further sleep,
\* and with one breaker failure recorded for that attempt (besides those of the
\* retryable failures before it)
C12_NonRetryableRecorded ==
    \A t \in Callers :
        LET c == calls[t]
        IN  (c.pc = "raised" /\ c.error \in NonRetryableErrors) =>
                /\ c.posts = c.failed + 1
                /\ Len(c.sleeps) = c.failed
                /\ c.recorded = c.failed + 1

----------------------------------------------------------------------------
(* One referee conducting a match with two player agents: conduct_match,     *)
(* the players' handlers answering its requests, and the referee's handlers   *)
(* for inbound GAME_JOIN_ACK and CHOOSE_PARITY_RESPONSE messages.             *)

InitMatch ==
    /\ now = 0
    /\ IdleBreaker
    /\ IdleSched
    /\ IdleGame
    /\ IdleClient
    /\ IdleMatch
    /\ IdleStand
    /\ IdleAgent
    /\ IdleServer
    /\ IdleLeague
    /\ IdleSim

\* the instants at which something is due: the end of a sleep, and, while the
\* sends of a phase are awaited (a send may last through its retries), the second
\* after the deadline they carry
MatchDeadlines ==
    {conduct[m].wake : m \in {x \in MatchIds : conduct[x].pc \in {"join_wait", "choice_wait"}}}
    \cup {conduct[m].deadline + 1 :
             m \in {x \in MatchIds : conduct[x].pc \in {"inviting", "requesting"}}}

\* time passes, up to the next of those instants
MatchTick ==
    /\ \E d \in MatchDeadlines :
          /\ d > now
          /\ \A d2 \in MatchDeadlines : d2 > now => d <= d2
          /\ now' = d
    /\ UNCHANGED matchVars
    /\ MatchFrame

\* conduct_match, lines 50-67, and _send_invitations, lines 90-132: the match state
\* is stored and both invitations are issued
StartMatch(m, a, b) ==
    /\ conduct[m].pc = "idle"
    /\ active_matches' = [active_matches EXCEPT ![m] = MatchState(m, 1, a, b)]
    /\ LET f == fan_out(now, now + JOIN_WINDOW)
       IN  conduct' = [conduct EXCEPT ![m].pc = "inviting",
                                      ![m].deadline = now + JOIN_WINDOW,
                                      ![m].sends = f.sends,
                                      ![m].started = f.started,
                                      ![m].carried = f.carried]
    /\ UNCHANGED <<now, players, lastReply>>
    /\ MatchFrame

\* invite_player, lines 102-113, with PlayerHandlers.handle_game_invitation at the other
\* end: the player becomes ACTIVE and its GAME_JOIN_ACK is the body of the HTTP response,
\* which invite_player drops
InviteAnswered(m, side) ==
    /\ conduct[m].pc = "inviting"
    /\ conduct[m].sends[side] = "pending"
    /\ LET ms == active_matches[m]
           p == PlayerOf(ms, side)
       IN  players' = [players EXCEPT ![p] = set_active(@, m, OpponentOf(ms, side))]
    /\ conduct' = [conduct EXCEPT ![m].sends[side] = "answered",
                                  ![m].acks[side] = "ACCEPTED",
                                  ![m].late = @ \/ now + JOIN_WINDOW > conduct[m].deadline]
    /\ UNCHANGED <<now, active_matches, lastReply>>
    /\ MatchFrame

\* invite_player, lines 114-116: the send raised, the error is logged
InviteFailed(m, side, e) ==
    /\ conduct[m].pc = "inviting"
    /\ conduct[m].sends[side] = "pending"
    /\ IF is_caught(e)
       THEN /\ conduct' = [conduct EXCEPT ![m].sends[side] = "failed"]
            /\ UNCHANGED active_matches
       ELSE /\ conduct' = [conduct EXCEPT ![m] =
                               returned(@, raised_result(active_matches[m], e))]
            /\ active_matches' = pop(active_matches, m)
    /\ UNCHANGED <<now, players, lastReply>>
    /\ MatchFrame

\* _send_invitations, lines 132-136: both sends are over, the sleep begins
GatherInvites(m) ==
    /\ conduct[m].pc = "inviting"
    /\ \A s \in Sides : conduct[m].sends[s] # "pending"
    /\ conduct' = [conduct EXCEPT ![m].pc = "join_wait", ![m].wake = now + JOIN_WINDOW]
    /\ UNCHANGED <<now, active_matches, players, lastReply>>
    /\ MatchFrame

\* _send_invitations, line 138, conduct_match, lines 68-72 and 84-86, and
\* _request_parity_choices, lines 142-167: after the sleep either the match ends as
\* join_timeout and leaves the table, or both choice requests are issued
JoinWindowEnds(m) ==
    /\ conduct[m].pc = "join_wait"
    /\ sleep_over(m)
    /\ IF join_ok(active_matches[m])
       THEN /\ LET f == fan_out(now, now + CHOICE_WINDOW)
               IN  conduct' = [conduct EXCEPT ![m].pc = "requesting",
                                              ![m].deadline = now + CHOICE_WINDOW,
                                              ![m].sends = f.sends,
                                              ![m].started = f.started,
                                              ![m].carried = f.carried,
                                              ![m].requested = TRUE]
            /\ UNCHANGED active_matches
       ELSE /\ conduct' = [conduct EXCEPT ![m] =
                  returned([@ EXCEPT !.missing = missing_joins(active_matches[m])],
                           technical_loss_result(active_matches[m], "join_timeout"))]
            /\ active_matches' = pop(active_matches, m)
    /\ UNCHANGED <<now, players, lastReply>>
    /\ MatchFrame

\* request_choice, lines 154-159, with PlayerHandlers.handle_choose_parity at the other
\* end: the player's choice is the body of the HTTP response, which request_choice drops
ChoiceAnswered(m, side, choice) ==
    /\ conduct[m].pc = "requesting"
    /\ conduct[m].sends[side] = "pending"
    /\ conduct' = [conduct EXCEPT ![m].sends[side] = "answered",
                                  ![m].answers[side] = choice,
                                  ![m].late = @ \/ now + CHOICE_WINDOW > conduct[m].deadline]
    /\ UNCHANGED <<now, active_matches, players, lastReply>>
    /\ MatchFrame

\* request_choice, lines 160-162: the send raised, the error is logged
ChoiceRequestFailed(m, side, e) ==
    /\ conduct[m].pc = "requesting"
    /\ conduct[m].sends[side] = "pending"
    /\ IF is_caught(e)
       THEN /\ conduct' = [conduct EXCEPT ![m].sends[side] = "failed"]
            /\ UNCHANGED active_matches
       ELSE /\ conduct' = [conduct EXCEPT ![m] =
                               returned(@, raised_result(active_matches[m], e))]
            /\ active_matches' = pop(active_matches, m)
    /\ UNCHANGED <<now, players, lastReply>>
    /\ MatchFrame

\* _request_parity_choices, lines 169-173: both sends are over, the sleep begins
GatherChoices(m) ==
    /\ conduct[m].pc = "requesting"
    /\ \A s \in Sides : conduct[m].sends[s] # "pending"
    /\ conduct' = [conduct EXCEPT ![m].pc = "choice_wait", ![m].wake = now + CHOICE_WINDOW]
    /\ UNCHANGED <<now, active_matches, players, lastReply>>
    /\ MatchFrame

\* _request_parity_choices, lines 175-178, and conduct_match, lines 73-86: after the
\* sleep the match ends, as choice_timeout or with the outcome of the number drawn,
\* and leaves the table
ChoiceWindowEnds(m) ==
    /\ conduct[m].pc = "choice_wait"
    /\ sleep_over(m)
    /\ IF choices_ok(active_matches[m])
       THEN \E drawn_number \in min_number..max_number :
               /\ conduct' = [conduct EXCEPT ![m] =
                     returned(@, determine_winner(active_matches[m], drawn_number))]
               /\ players' = send_game_over(players, active_matches[m],
                                  determine_winner(active_matches[m], drawn_number))
       ELSE /\ conduct' = [conduct EXCEPT ![m] =
                  returned([@ EXCEPT !.missing = missing_choices(active_matches[m])],
                           technical_loss_result(active_matches[m], "choice_timeout"))]
            /\ UNCHANGED players
    /\ active_matches' = pop(active_matches, m)
    /\ UNCHANGED <<now, lastReply>>
    /\ MatchFrame

\* handle_match_assignment, lines 117-124, and _report_result: conduct_match has
\* returned its result and the report to the league manager is sent, or fails
\* and is logged
ReportResult(m, ok) ==
    /\ conduct[m].pc = "done"
    /\ conduct[m].report = "none"
    /\ "raised" \notin DOMAIN conduct[m].result
    /\ conduct' = [conduct EXCEPT ![m].report = IF ok THEN "sent" ELSE "failed"]
    /\ UNCHANGED <<now, active_matches, players, lastReply>>
    /\ MatchFrame

\* the join statuses and the choices an inbound message may carry
JoinStatuses == {"ACCEPTED", "DECLINED"}
ChoiceValues == ParityChoice \cup {"maybe"}

\* a GAME_JOIN_ACK request reaches the referee's server
HandleGameJoinAck(m, player_id, status) ==
    /\ active_matches' = handle_game_join_ack(active_matches, m, player_id, status)
    /\ lastReply' = join_ack_reply(active_matches, m, status)
    /\ conduct' = [conduct EXCEPT ![m].late_join =
           @ \/ ( /\ active_matches'[m] # active_matches[m]
                  /\ conduct[m].pc \in {"inviting", "join_wait"}
                  /\ now > conduct[m].deadline )]
    /\ UNCHANGED <<now, players>>
    /\ MatchFrame

\* a CHOOSE_PARITY_RESPONSE request reaches the referee's server
HandleParityResponse(m, player_id, parity_choice) ==
    /\ active_matches' = handle_parity_response(active_matches, m, player_id, parity_choice)
    /\ lastReply' = parity_reply(active_matches, m, parity_choice)
    /\ UNCHANGED <<now, conduct, players>>
    /\ MatchFrame

\* the participants the league manager assigns to each match id
PairOf(m) == IF m = "m1" THEN <<1, 2>> ELSE <<2, 3>>

\* the matches in M are conducted; messages may name any match id
NextMatches(M) ==
    \/ MatchTick
    \/ \E m \in M : StartMatch(m, PairOf(m)[1], PairOf(m)[2])
    \/ \E m \in M, side \in Sides : InviteAnswered(m, side)
    \/ \E m \in M, side \in Sides, e \in SendFailures : InviteFailed(m, side, e)
    \/ \E m \in M : GatherInvites(m)
    \/ \E m \in M : JoinWindowEnds(m)
    \/ \E m \in M, side \in Sides, choice \in ParityChoice : ChoiceAnswered(m, side, choice)
    \/ \E m \in M, side \in Sides, e \in SendFailures : ChoiceRequestFailed(m, side, e)
    \/ \E m \in M : GatherChoices(m)
    \/ \E m \in M : ChoiceWindowEnds(m)
    \/ \E m \in M, ok \in BOOLEAN : ReportResult(m, ok)
    \/ \E m \in MatchIds, p \in MatchPlayers, status \in JoinStatuses :
          HandleGameJoinAck(m, p, status)
    \/ \E m \in MatchIds, p \in MatchPlayers, c \in ChoiceValues :
          HandleParityResponse(m, p, c)

NextMatch == NextMatches({"m1"})

SpecMatch == InitMatch /\ [][NextMatch]_vars

\* the referee's table while the matches assigned to it wait for their
\* invitations to be answered: matches are stored, messages naming any match
\* id arrive from any player
NextMatchTable ==
    \/ \E m \in MatchIds : StartMatch(m, PairOf(m)[1], PairOf(m)[2])
    \/ \E m \in MatchIds, p \in MatchPlayers, status \in JoinStatuses :
          HandleGameJoinAck(m, p, status)
    \/ \E m \in MatchIds, p \in MatchPlayers, c \in ChoiceValues :
          HandleParityResponse(m, p, c)

SpecMatchTable == InitMatch /\ [][NextMatchTable]_vars

----------------------------------------------------------------------------
(* One referee conducting two matches assigned at the same instant: X = m1,    *)
(* whose participants are unreachable and never send anything, and Y = m2.     *)
(* The players use the always-even strategy.                                   *)

\* the steps of conduct_match for match m that the event loop takes by itself
ConductStep(m) ==
    \/ \E side \in Sides : InviteAnswered(m, side)
    \/ \E side \in Sides, e \in SendFailures : InviteFailed(m, side, e)
    \/ GatherInvites(m)
    \/ JoinWindowEnds(m)
    \/ \E side \in Sides : ChoiceAnswered(m, side, "even")
    \/ \E side \in Sides, e \in SendFailures : ChoiceRequestFailed(m, side, e)
    \/ GatherChoices(m)
    \/ ChoiceWindowEnds(m)

\* the steps of conduct_match for a match whose invitations all fail
UnreachableStep(m) ==
    \/ \E side \in Sides, e \in SendFailures : InviteFailed(m, side, e)
    \/ GatherInvites(m)
    \/ JoinWindowEnds(m)

NextMatch2 ==
    \/ MatchTick
    \/ \E m \in MatchIds : now = 0 /\ StartMatch(m, PairOf(m)[1], PairOf(m)[2])
    \/ UnreachableStep("m1")
    \/ ConductStep("m2")
    \/ \E p \in MatchPlayers : HandleGameJoinAck("m2", p, "ACCEPTED")
    \/ \E p \in MatchPlayers : HandleParityResponse("m2", p, "even")

\* the event loop runs every coroutine of Y that is ready and lets time pass;
\* nothing is assumed about X's coroutine or about the messages that arrive
FairMatch2 ==
    /\ WF_vars(MatchTick)
    /\ WF_vars(ConductStep("m2"))

SpecMatch2 == InitMatch /\ [][NextMatch2]_vars /\ FairMatch2

\* one match, with the event loop running every step of conduct_match that is
\* ready and letting time pass; nothing is assumed about the messages that arrive
FairMatch ==
    /\ WF_vars(MatchTick)
    /\ WF_vars(ConductStep("m1"))

SpecMatchFair == InitMatch /\ [][NextMatch]_vars /\ FairMatch

\* the failures of a send that come from the participant or the way to it
ParticipantFailures == SendFailures \ {"CancelledError"}

\* the match ended with an outcome of the game
Settled(r) ==
    /\ "winner_id" \in DOMAIN r
    /\ <<r.player_a_result, r.player_b_result>> \in
          {<<"WIN", "LOSS">>, <<"LOSS", "WIN">>, <<"DRAW", "DRAW">>}

\* C1: a match whose two players both answered the invitation with an ACCEPTED
\* join acknowledgement, and the choice requests (if any were sent) with a valid
\* choice, each at the instant it was asked and with no send failing, has ended
\* settled, with WIN/LOSS or DRAW, not with a technical loss
C1_AcceptedMatchSettles ==
    \A m \in MatchIds :
        ( /\ conduct[m].pc = "done"
          /\ ~conduct[m].late
          /\ \A s \in Sides : conduct[m].acks[s] = "ACCEPTED"
          /\ conduct[m].requested =>
                \A s \in Sides : conduct[m].answers[s] \in ParityChoice )
        => Settled(conduct[m].result)

\* C13: a match that ended by join timeout or by choice timeout, whether one side
\* or both had failed to respond, has a result with TECHNICAL_LOSS for both
\* participants, the timeout as its error, no winner and no drawn number
C13_TimeoutIsTechnicalLossForBoth ==
    \A m \in MatchIds :
        LET c == conduct[m]
        IN  c.pc = "done" =>
              /\ ("error" \in DOMAIN c.result) = (c.missing # {})
              /\ c.missing # {} =>
                    /\ c.result.error = (IF c.requested THEN "choice_timeout" ELSE "join_timeout")
                    /\ c.result.player_a_result = "TECHNICAL_LOSS"
                    /\ c.result.player_b_result = "TECHNICAL_LOSS"
                    /\ "winner_id" \notin DOMAIN c.result
                    /\ "drawn_number" \notin DOMAIN c.result

\* C13 witness: a match ended by choice timeout with only side b's choice missing
C13_Witness ==
    \E m \in MatchIds :
        /\ conduct[m].pc = "done"
        /\ conduct[m].missing = {"b"}
        /\ conduct[m].result.error = "choice_timeout"

\* C14: with matches X = m1 and Y = m2 conducted at once, Y, once started,
\* reaches its result whatever X does, also when X's sends never complete
C14_YNotDelayedByX ==
    (conduct["m2"].pc = "inviting") ~> (conduct["m2"].pc = "done")

\* C14 witness: Y has ended settled while X's invitation to one participant is
\* still being sent
C14_Witness ==
    /\ conduct["m2"].pc = "done"
    /\ Settled(conduct["m2"].result)
    /\ conduct["m1"].pc = "inviting"
    /\ conduct["m1"].sends["a"] = "pending"

\* C15: a match that went past the join phase had both join flags set before
\* the deadline carried by its invitations elapsed: no flag of such a match was
\* set by an acknowledgement that arrived after that deadline
C15_JoinedBeforeDeadline ==
    \A m \in MatchIds : conduct[m].requested => ~conduct[m].late_join

\* C16: in one conduct_match the phases follow each other: the choice requests
\* are sent only when the join sleep has ended with both join flags set, the
\* outcome is determined only when the choice sleep has ended with both choices
\* there, and a match that has ended (so also one ended by join timeout) sends
\* no choice request and changes no more
C16_PhasesOrdered ==
    [][ \A m \in MatchIds :
          LET c == conduct[m]
              d == conduct'[m]
              ms == active_matches[m]
          IN  /\ (~c.requested /\ d.requested) =>
                    /\ c.pc = "join_wait" /\ now >= c.wake
                    /\ ms.player_a_joined /\ ms.player_b_joined
                    /\ d.pc = "requesting"
              /\ (d.pc = "requesting") => d.requested
              /\ (\E s \in Sides : d.answers[s] # NoChoice) => d.requested
              /\ (c.pc # "done" /\ d.pc = "done" /\ Settled(d.result)) =>
                    /\ c.pc = "choice_wait" /\ now >= c.wake
                    /\ ms.player_a_choice \in ParityChoice
                    /\ ms.player_b_choice \in ParityChoice
              /\ (c.pc = "done") => [d EXCEPT !.report = c.report] = c ]_vars

\* C16 witness: a match went through the choice phase and ended settled, won by
\* one of its players
C16_Witness ==
    \E m \in MatchIds :
        /\ conduct[m].pc = "done"
        /\ conduct[m].requested
        /\ Settled(conduct[m].result)
        /\ conduct[m].result.winner_id # NoneId

\* C17: every choice recorded in a match state is absent or one of even, odd;
\* handle_parity_response with any other value answers ERROR and leaves the
\* table as it is; a settled result carries two valid choices
C17_ChoicesValid ==
    /\ \A m \in MatchIds :
          active_matches[m] # NoMatch =>
              /\ active_matches[m].player_a_choice \in ParityChoice \cup {NoChoice}
              /\ active_matches[m].player_b_choice \in ParityChoice \cup {NoChoice}
    /\ \A m \in MatchIds, p \in MatchPlayers, c \in ChoiceValues \ ParityChoice :
          /\ handle_parity_response(active_matches, m, p, c) = active_matches
          /\ parity_reply(active_matches, m, c) = "ERROR"
    /\ \A m \in MatchIds :
          (conduct[m].pc = "done" /\ Settled(conduct[m].result)) =>
              /\ conduct[m].result.player_a_choice \in ParityChoice
              /\ conduct[m].result.player_b_choice \in ParityChoice

\* C17 witness: a match ended settled on the choices odd and even, and the last
\* message to the referee was answered with an error
C17_Witness ==
    \E m \in MatchIds :
        /\ conduct[m].pc = "done"
        /\ Settled(conduct[m].result)
        /\ conduct[m].result.player_a_choice = "odd"
        /\ conduct[m].result.player_b_choice = "even"
        /\ lastReply = "ERROR"

\* C18: once conduct_match has finished for a match id, by a settled result, a
\* join timeout, a choice timeout or an exception, active_matches has no entry
\* for that id, before the report, after it and when it failed
C18_FinishedMatchRemoved ==
    \A m \in MatchIds : conduct[m].pc = "done" => active_matches[m] = NoMatch

\* C18 witness: a match ended settled and its report to the league manager failed
C18_Witness ==
    \E m \in MatchIds :
        /\ conduct[m].pc = "done"
        /\ Settled(conduct[m].result)
        /\ conduct[m].report = "failed"
        /\ active_matches[m] = NoMatch

\* C19: conduct_match is never left by an exception that a failed send to a
\* participant raised (exhausted retries, HTTP error, CircuitBreakerOpen, bad
\* body), and a match that was started always ends, whatever the participants
\* do or fail to do
C19_NoExceptionAlwaysEnds ==
    /\ [](\A m \in MatchIds :
             (conduct[m].pc = "done" /\ "raised" \in DOMAIN conduct[m].result) =>
                 conduct[m].result.raised \notin ParticipantFailures)
    /\ (conduct["m1"].pc = "inviting") ~> (conduct["m1"].pc = "done")

\* C19 witness: a match whose two invitations both failed has ended with the
\* join_timeout result
C19_Witness ==
    \E m \in MatchIds :
        /\ conduct[m].pc = "done"
        /\ \A s \in Sides : conduct[m].acks[s] = "none"
        /\ "error" \in DOMAIN conduct[m].result
        /\ conduct[m].result.error = "join_timeout"

----------------------------------------------------------------------------
(* One StandingsManager under any sequence of its operations                 *)

InitStand ==
    /\ now = 0
    /\ IdleBreaker
    /\ IdleSched
    /\ IdleGame
    /\ IdleClient
    /\ IdleMatch
    /\ IdleStand
    /\ IdleAgent
    /\ IdleServer
    /\ IdleLeague
    /\ IdleSim

\* the update_result calls made so far
TotalPlayed ==
    LET RECURSIVE sum(_)
        sum(t) == IF t = <<>> THEN 0 ELSE Head(t).played + sum(Tail(t))
    IN  sum(standings)

RegisterPlayer(player_id, display_name) ==
    /\ standings' = register_player(standings, player_id, display_name)
    /\ ranking' = NoRanking
    /\ standOp' = "register"
    /\ StandFrame

UpdateResult(player_id, result) ==
    /\ TotalPlayed < MaxUpdates
    /\ standings' = update_result(standings, player_id, result)
    /\ ranking' = NoRanking
    /\ standOp' = "update"
    /\ StandFrame

GetStandings ==
    /\ ranking' = get_standings(standings)
    /\ standOp' = "rank"
    /\ UNCHANGED standings
    /\ StandFrame

Reset ==
    /\ standings' = reset(standings)
    /\ ranking' = NoRanking
    /\ standOp' = "reset"
    /\ StandFrame

NextStand ==
    \/ \E p \in StandPlayers : \E n \in DisplayNames(p) : RegisterPlayer(p, n)
    \/ \E p \in StandPlayers, r \in ResultValues : UpdateResult(p, r)
    \/ GetStandings
    \/ Reset

SpecStand == InitStand /\ [][NextStand]_vars

\* C23: every entry has played = wins + draws + losses and
\* points = 3 * wins + draws; a step that reports WIN adds 3 points, DRAW adds
\* 1, and any other result adds none and is counted as a loss
C23_PointsInvariant ==
    \A i \in 1..Len(standings) :
        LET e == standings[i]
        IN  /\ e.played = e.wins + e.draws + e.losses
            /\ e.points = 3 * e.wins + e.draws
            /\ \A r \in ResultValues :
                  LET u == update_result(standings, e.player_id, r)[i]
                  IN  /\ u.points - e.points =
                             (IF r = "WIN" THEN 3 ELSE IF r = "DRAW" THEN 1 ELSE 0)
                      /\ (r \in {"LOSS", "TECHNICAL_LOSS"}) => u.losses = e.losses + 1

\* C23 witness: an entry with a win, a draw and a technical loss or loss
C23_Witness ==
    \E i \in 1..Len(standings) :
        /\ standings[i].wins = 1
        /\ standings[i].draws = 1
        /\ standings[i].losses = 1
        /\ standings[i].points = 4

----------------------------------------------------------------------------
(* One player agent's PlayerState under any sequence of its operations       *)

InitAgent ==
    /\ now = 0
    /\ IdleBreaker
    /\ IdleSched
    /\ IdleGame
    /\ IdleClient
    /\ IdleMatch
    /\ IdleStand
    /\ IdleAgent
    /\ IdleServer
    /\ IdleLeague
    /\ IdleSim

AgentRegister(player_id) ==
    /\ agent' = agent_register(agent, player_id)
    /\ disk' = persist(agent', disk)
    /\ AgentFrame

AgentStartMatch(match_id) ==
    /\ agent' = agent_start_match(agent, match_id)
    /\ disk' = persist(agent', disk)
    /\ AgentFrame

AgentRecordChoice(choice) ==
    /\ agent' = agent_record_choice(agent, choice)
    /\ disk' = IF agent.current_match # NoCurrentMatch THEN persist(agent', disk) ELSE disk
    /\ AgentFrame

AgentEndMatch(result) ==
    /\ agent.total_games < MaxGames
    /\ agent' = agent_end_match(agent, result)
    /\ disk' = IF agent.current_match # NoCurrentMatch THEN persist(agent', disk) ELSE disk
    /\ AgentFrame

AgentSuspend ==
    /\ agent' = agent_suspend(agent)
    /\ disk' = persist(agent', disk)
    /\ AgentFrame

AgentRecover ==
    /\ agent' = agent_recover(agent)
    /\ disk' = IF agent.lifecycle = "SUSPENDED" THEN persist(agent', disk) ELSE disk
    /\ AgentFrame

AgentShutdown ==
    /\ agent' = agent_shutdown(agent)
    /\ disk' = persist(agent', disk)
    /\ AgentFrame

AgentSetDataDir ==
    /\ agent' = agent_set_data_dir(agent)
    /\ UNCHANGED disk
    /\ AgentFrame

\* the agent process is started again: PlayerState.load replaces the state
AgentLoad(player_id) ==
    /\ agent' = load(disk, player_id)
    /\ UNCHANGED disk
    /\ AgentFrame

NextAgent ==
    \/ \E p \in AgentIds : AgentRegister(p)
    \/ \E m \in MatchIds : AgentStartMatch(m)
    \/ \E c \in ParityChoice : AgentRecordChoice(c)
    \/ \E r \in ResultValues : AgentEndMatch(r)
    \/ AgentSuspend
    \/ AgentRecover
    \/ AgentShutdown
    \/ AgentSetDataDir
    \/ \E p \in AgentIds : AgentLoad(p)

SpecAgent == InitAgent /\ [][NextAgent]_vars

----------------------------------------------------------------------------
(* One MCPServer receiving the requests of a peer's MCPClient.send           *)

InitServer ==
    /\ now = 0
    /\ IdleBreaker
    /\ IdleSched
    /\ IdleGame
    /\ IdleClient
    /\ IdleMatch
    /\ IdleStand
    /\ IdleAgent
    /\ IdleLeague
    /\ IdleSim
    /\ \E enable \in BOOLEAN : server = NewServer(enable)
    /\ exchange = NoExchange

\* the instants at which an entry of the rate limiter leaves the window
ServerDeadlines ==
    UNION {{server.requests[k][i] + RATE_LIMIT_WINDOW_SECONDS :
                i \in 1..Len(server.requests[k])} : k \in SenderKeys}

\* time passes, up to the next of those instants
ServerTick ==
    /\ \E d \in ServerDeadlines :
          /\ d > now
          /\ d <= MaxClock
          /\ \A d2 \in ServerDeadlines : d2 > now => d <= d2
          /\ now' = d
    /\ UNCHANGED serverVars
    /\ ServerFrame

\* one attempt of a send: the request is posted, the server answers it, and
\* send returns or fails
HandleRequest(body, handler_raises) ==
    /\ server.handled < MaxHandled
    /\ \E response \in {handle_request(server, body, now, handler_raises)} :
           /\ server' = response.server
           /\ exchange' = [ request |-> body,
                            status  |-> response.status,
                            code    |-> response.code,
                            invoked |-> response.invoked,
                            send    |-> send_ends(response) ]
    /\ UNCHANGED now
    /\ ServerFrame

NextServer ==
    \/ ServerTick
    \/ \E body \in Requests, handler_raises \in BOOLEAN :
          HandleRequest(body, handler_raises)

SpecServer == InitServer /\ [][NextServer]_vars

----------------------------------------------------------------------------
(* The league manager: registrations, the start of the league, the reports   *)
(* of the referees                                                           *)

InitLeague ==
    /\ now = 0
    /\ IdleBreaker
    /\ IdleSched
    /\ IdleGame
    /\ IdleClient
    /\ IdleMatch
    /\ IdleStand
    /\ IdleAgent
    /\ IdleServer
    /\ IdleLeague
    /\ IdleSim

\* the registration request of a new agent is handled and the agent's send
\* returns the response
HandlePlayerRegistration ==
    /\ Len(league.registered_players) < MaxLeaguePlayers
    /\ league' = handle_player_registration(league, Cardinality(Applicants(league)) + 1)
    /\ LeagueFrame

HandleRefereeRegistration ==
    /\ Len(league.registered_referees) < MaxReferees
    /\ league' = handle_referee_registration(league)
    /\ LeagueFrame

\* a check_and_start_league task runs up to its sleep, or ends
CheckAndStartLeague ==
    /\ league.tasks > 0
    /\ league' = [league EXCEPT !.tasks = @ - 1,
                                !.sleeping = IF may_start(league) THEN @ + 1 ELSE @]
    /\ LeagueFrame

\* the sleep of a check_and_start_league task is over: await self.start_league()
StartLeague ==
    /\ league.sleeping > 0
    /\ league' = start_league([league EXCEPT !.sleeping = @ - 1])
    /\ LeagueFrame

\* the matches of the rounds that were started
StartedMatches ==
    UNION {{league.schedule[league.rounds_started[r]][i] :
                i \in 1..Len(league.schedule[league.rounds_started[r]])} :
              r \in 1..Len(league.rounds_started)}

\* the referee of a match of a round that was started conducts it and reports
\* the result; the coordinator handles the report
HandleMatchResult(case) ==
    /\ \E match \in StartedMatches :
          /\ match.match_id \notin league.reported
          /\ LET params == report_result(conduct_match(match, case))
             IN  league' = handle_match_result(league, reported_match(params),
                                               params.player_a_result,
                                               params.player_b_result)
    /\ LeagueFrame

NextLeague ==
    \/ HandlePlayerRegistration
    \/ HandleRefereeRegistration
    \/ CheckAndStartLeague
    \/ StartLeague
    \/ \E case \in RefereeCases : HandleMatchResult(case)

SpecLeague == InitLeague /\ [][NextLeague]_vars

----------------------------------------------------------------------------
(* SpecRegistration: the agents register through MCPClient.send, whose      *)
(* attempts can time out after the coordinator has handled the request      *)

\* the registration request of a new agent is handled, but the agent's attempt
\* times out before the response arrives (mcp_client.py 142-147)
HandleRegistrationTimedOut ==
    /\ Len(league.registered_players) < MaxLeaguePlayers
    /\ LET a == Cardinality(Applicants(league)) + 1
       IN  league' = [handle_player_registration(league, a) EXCEPT !.waiting = @ \cup {a}]
    /\ LeagueFrame

\* the retry of a waiting agent re-sends the same request, which is handled;
\* this attempt returns the response, or times out too
HandleRegistrationResent(a, in_time) ==
    /\ Len(league.registered_players) < MaxLeaguePlayers
    /\ a \in league.waiting
    /\ Cardinality(entries_of(league, a)) \in attempt_range
    /\ league' = [handle_player_registration(league, a) EXCEPT
                      !.waiting = IF in_time THEN @ \ {a} ELSE @]
    /\ LeagueFrame

NextRegistration ==
    \/ HandlePlayerRegistration
    \/ HandleRegistrationTimedOut
    \/ \E a \in 1..MaxLeaguePlayers, in_time \in BOOLEAN : HandleRegistrationResent(a, in_time)
    \/ HandleRefereeRegistration
    \/ CheckAndStartLeague

SpecRegistration == InitLeague /\ [][NextRegistration]_vars

----------------------------------------------------------------------------
(* Two runs of the sequential league simulation on the same registrations    *)
(* and the same drawn numbers                                                 *)

InitSim ==
    /\ now = 0
    /\ IdleBreaker
    /\ IdleSched
    /\ IdleGame
    /\ IdleClient
    /\ IdleMatch
    /\ IdleStand
    /\ IdleAgent
    /\ IdleServer
    /\ IdleLeague
    /\ \E strategies \in [SimPlayerIds -> Strategies],
          drawn \in [1..Len(sim_schedule) -> DrawnValues] :
          sim = [ referee_ids |-> <<RefereeId(1)>>,
                  drawn       |-> drawn,
                  runs        |-> [r \in Runs |-> NewRun(strategies)] ]

run_done(r) == Len(sim.runs[r].match_results) = Len(sim_schedule)

\* run r plays its next match; the second run is made after the first
RunMatch(r) ==
    /\ ~run_done(r)
    /\ r = 2 => run_done(1)
    /\ LET run == sim.runs[r]
           k == Len(run.match_results) + 1
           match == sim_schedule[k]
       IN  \E pick_a \in choose_parity(run.players[match.player_a], match.player_b) :
           \E pick_b \in choose_parity(run.players[match.player_b], match.player_a) :
              sim' = [sim EXCEPT !.runs[r] =
                         run_match(run, sim.referee_ids, pick_a, pick_b, sim.drawn[k])]
    /\ SimFrame

NextSim == \E r \in Runs : RunMatch(r)

SpecSim == InitSim /\ [][NextSim]_vars

\* C28: for n odd, n >= 3, generate_schedule returns exactly n rounds, each of
\* (n-1)/2 matches, so with exactly one player without a match
C28_OddRounds ==
    (schedPc = "done" /\ Len(player_ids) >= 3 /\ Len(player_ids) % 2 = 1) =>
        /\ Len(schedule) = Len(player_ids)
        /\ \A r \in 1..Len(schedule) : 2 * Len(schedule[r]) = Len(player_ids) - 1

\* the number of matches of the schedule given to referee id
Load(id) ==
    Cardinality({k \in 1..Len(flatten(schedule)) : flatten(schedule)[k].referee_id = id})

\* C29: after assign_referees with m >= 1 referees the match at 0-based position
\* k of the schedule flattened in round order has referee_ids[k mod m], and the
\* loads of any two referees differ by at most one
C29_RefereesRoundRobin ==
    (schedPc = "assigned" /\ referee_ids # <<>>) =>
        LET all == flatten(schedule)
            m == Len(referee_ids)
        IN  /\ \A k \in 1..Len(all) : all[k].referee_id = referee_ids[((k - 1) % m) + 1]
            /\ \A i, j \in 1..m :
                  Load(referee_ids[i]) - Load(referee_ids[j]) \in {-1, 0, 1}

\* C29 witness: two referees were assigned to a schedule whose first round has
\* three matches, so the second round begins with the second referee
C29_Witness ==
    /\ schedPc = "assigned"
    /\ Len(referee_ids) = 2
    /\ Len(schedule) >= 2
    /\ Len(schedule[1]) = 3
    /\ schedule[2][1].referee_id = referee_ids[2]

\* C24: the list get_standings returns holds every entry once, by points
\* descending, then wins descending; entries equal in both keep their
\* registration order; ranks are 1..n by position
C24_RankingOrder ==
    standOp = "rank" =>
        /\ Len(ranking) = Len(standings)
        /\ \A k \in 1..Len(standings) :
              \E i \in 1..Len(ranking) :
                  /\ ranking[i].player_id = standings[k].player_id
                  /\ ranking[i].display_name = standings[k].display_name
                  /\ ranking[i].points = standings[k].points
                  /\ ranking[i].wins = standings[k].wins
                  /\ ranking[i].draws = standings[k].draws
                  /\ ranking[i].losses = standings[k].losses
                  /\ ranking[i].played = standings[k].played
        /\ \A i \in 1..Len(ranking) : ranking[i].rank = i
        /\ \A i, j \in 1..Len(ranking) :
              i < j =>
                  /\ ranking[i].points >= ranking[j].points
                  /\ ranking[i].points = ranking[j].points =>
                        ranking[i].wins >= ranking[j].wins
                  /\ (ranking[i].points = ranking[j].points
                        /\ ranking[i].wins = ranking[j].wins) =>
                        index_of(standings, ranking[i].player_id)
                            < index_of(standings, ranking[j].player_id)

\* C24 witness: a ranking in which a later registered player with one win stands
\* above an earlier one with the same points from three draws, and two players
\* equal in points and wins follow in registration order
C24_Witness ==
    /\ standOp = "rank"
    /\ Len(ranking) = 3
    /\ ranking[1].points = 3 /\ ranking[1].wins = 1
    /\ ranking[2].points = 3 /\ ranking[2].wins = 0
    /\ index_of(standings, ranking[1].player_id) > index_of(standings, ranking[2].player_id)

\* C25: reset sets points, wins, draws, losses and played of every entry to 0
\* and leaves the entries, their player ids, display names and order as they were
C25_ResetZeroesOnly ==
    [][ standOp' = "reset" =>
          /\ Len(standings') = Len(standings)
          /\ \A i \in 1..Len(standings) :
                /\ standings'[i].player_id = standings[i].player_id
                /\ standings'[i].display_name = standings[i].display_name
                /\ standings'[i].points = 0
                /\ standings'[i].wins = 0
                /\ standings'[i].draws = 0
                /\ standings'[i].losses = 0
                /\ standings'[i].played = 0 ]_vars

\* C25 witness: a table of three entries, one registered under a display name,
\* has just been reset
C25_Witness ==
    /\ standOp = "reset"
    /\ Len(standings) = 3
    /\ \E i \in 1..3 : standings[i].display_name = "Ann"
    /\ \A i \in 1..3 : standings[i].played = 0

\* C30: once the lifecycle of a player agent is SHUTDOWN it stays SHUTDOWN,
\* whatever PlayerState operation follows
C30_ShutdownIsTerminal ==
    [][agent.lifecycle = "SHUTDOWN" => agent'.lifecycle = "SHUTDOWN"]_vars

\* C21: when the receiving agent rejects a message (invalid envelope, failed
\* authentication, unknown message kind, handler error), the send of the peer
\* ends in a failure and does not return the response as a success
C21_RejectionFailsSend ==
    exchange.code \in {-32602, -32001, -32601, -32603} => exchange.send = "failed"

\* the timestamp of the params ends in Z or +00:00
ends_in_utc(timestamp) ==
    /\ timestamp.type = "str"
    /\ timestamp.pieces # <<>>
    /\ timestamp.pieces[Len(timestamp.pieces)] \in {"Z", "+00:00"}

\* the envelope lacks a required field, names another protocol, or carries a
\* timestamp that is not UTC
bad_envelope(params) ==
    \/ ~(RequiredFields \subseteq DOMAIN params)
    \/ /\ RequiredFields \subseteq DOMAIN params
       /\ \/ params.protocol # "league.v2"
          \/ ~ends_in_utc(params.timestamp)

\* C22: a JSON-RPC request whose envelope lacks a required field, names a
\* protocol other than league.v2 or has a timestamp that is not UTC is answered
\* with the invalid-envelope error and no handler is invoked for it
C22_BadEnvelopeRejected ==
    (/\ exchange.send # "none"
     /\ exchange.request.json
     /\ exchange.request.jsonrpc = "2.0"
     /\ bad_envelope(exchange.request.params))
        => (exchange.code = -32602 /\ ~exchange.invoked)

\* the matches of round r have all been reported
round_reported(r) ==
    \A i \in 1..Len(league.schedule[r]) : league.schedule[r][i].match_id \in league.reported

\* C26: once the league has started, the rounds of the schedule are started in
\* schedule order, a round only after every match of the round before it has
\* been reported, and when the last round has been reported the league is
\* completed
C26_RoundsInOrderToCompletion ==
    league.league_started =>
        /\ \A k \in 1..Len(league.rounds_started) : league.rounds_started[k] = k
        /\ \A k \in 2..Len(league.rounds_started) : round_reported(k - 1)
        /\ \A r \in 1..Len(league.schedule) :
              (r \in 1..Len(league.rounds_started) /\ round_reported(r))
                  => IF r < Len(league.schedule)
                     THEN r + 1 \in 1..Len(league.rounds_started)
                     ELSE league.completed

\* the strategy of every participant is one of the given set
strategies_among(S) == \A p \in SimPlayerIds : sim.runs[1].players[p].strategy \in S

\* both runs are over with the same match results and the same final ranking
same_outcome ==
    /\ sim.runs[1].match_results = sim.runs[2].match_results
    /\ sim_get_standings(sim.runs[1]) = sim_get_standings(sim.runs[2])

\* C27 as stated: two runs with the same participants in the same order, each
\* with one of the strategies always even, always odd, alternating from even,
\* majority-mirror of the opponent, and with the same drawn numbers, give the
\* same match results and the same final ranking
C27_SameRunsSameOutcome ==
    (/\ run_done(1) /\ run_done(2)
     /\ strategies_among({"deterministic_even", "deterministic_odd",
                          "alternating", "adaptive"}))
        => same_outcome

\* C27 amended: the same holds when every participant's strategy is always
\* even, always odd or alternating from even
C27_FixedStrategiesSameOutcome ==
    (/\ run_done(1) /\ run_done(2)
     /\ strategies_among({"deterministic_even", "deterministic_odd", "alternating"}))
        => same_outcome

C27_Witness ==
    /\ run_done(1) /\ run_done(2)
    /\ strategies_among({"deterministic_even", "deterministic_odd", "alternating"})
    /\ \E p \in SimPlayerIds : sim.runs[1].players[p].strategy = "alternating"
    /\ \E k \in 1..Len(sim_schedule) : sim.runs[2].match_results[k].result.winner # NoneId
    /\ same_outcome

\* C31: the lifecycle of a player agent becomes SUSPENDED only from REGISTERED
\* or ACTIVE, never from INIT or SHUTDOWN; recover moves SUSPENDED to
\* REGISTERED and changes nothing in any other state
C31_SuspendOnlyFromRegisteredOrActive ==
    [][/\ (agent.lifecycle # "SUSPENDED" /\ agent'.lifecycle = "SUSPENDED")
            => agent.lifecycle \in {"REGISTERED", "ACTIVE"}
       /\ AgentRecover =>
            IF agent.lifecycle = "SUSPENDED"
            THEN agent' = [agent EXCEPT !.lifecycle = "REGISTERED"]
            ELSE agent' = agent]_vars

\* C40: whenever the lifecycle of a player agent is ACTIVE it has a current
\* match, after any sequence of its operations and also in a state restored
\* from disk by PlayerState.load
C40_ActiveHasCurrentMatch ==
    agent.lifecycle = "ACTIVE" => agent.current_match # NoCurrentMatch

\* C35: the time a breaker stays OPEN is measured from the failure that moved
\* it to OPEN: a can_execute() made timeout_seconds or more after that failure
\* returns true, whatever failures were recorded while the breaker was OPEN
C35_OpenTimedFromOpeningFailure ==
    [][(CanExecute /\ cb.state = "OPEN"
                   /\ now - cb.last_state_change >= cb.timeout_seconds)
          => lastCall'.result]_vars

\* an HTTP attempt of caller t is issued in this step
issues_attempt(t) ==
    /\ calls'[t].pc = "post"
    /\ <<calls'[t].no, calls'[t].posts>> # <<calls[t].no, calls[t].posts>>

\* C34: no HTTP attempt is issued to an endpoint while the breaker of that
\* endpoint is OPEN with its timeout not elapsed, the retry attempts of a send
\* admitted before the breaker opened included
C34_NoAttemptWhileOpen ==
    [][\A t \in Callers :
          issues_attempt(t) =>
              LET b == registry'[calls'[t].endpoint]
              IN  ~(b.state = "OPEN" /\ now' - b.last_failure_time < b.timeout_seconds)]_vars

\* C32: under any interleaving of concurrent send calls no recorded failure or
\* success is lost: the failure count of every breaker is the number of
\* failures recorded since the count was last reset, its success count the
\* number of successes recorded since that count was last reset, and the breaker is
\* CLOSED exactly while fewer failures than its threshold are recorded
C32_NoRecordLost ==
    \A e \in Endpoints :
        registry[e] # NoBreaker =>
            /\ registry[e].failure_count = tally[e].failures
            /\ registry[e].success_count = tally[e].successes
            /\ registry[e].state = "CLOSED"
                   <=> tally[e].failures < registry[e].failure_threshold

\* two sends to one endpoint are in progress, each has recorded a failure
C32_Witness ==
    /\ \A t \in Callers : calls[t].pc \in {"post", "sleep"} /\ calls[t].recorded >= 1
    /\ calls["t1"].endpoint = calls["t2"].endpoint
    /\ registry[calls["t1"].endpoint].state = "OPEN"

\* C33: when a referee reports a finished match, the coordinator's standings
\* change for exactly the two participants of that match: each has played
\* incremented by 1 with its own result tallied, and no entry for any other
\* key is created or changed
C33_ReportChangesTheTwoParticipants ==
    [][\A match \in StartedMatches :
          (match.match_id \notin league.reported
              /\ match.match_id \in league'.reported)
          => /\ Len(league'.standings) = Len(league.standings)
             /\ \A i \in 1..Len(league.standings) :
                   LET old == league.standings[i]
                       new == league'.standings[i]
                   IN  IF old.player_id \in {match.player_a, match.player_b}
                       THEN /\ new.played = old.played + 1
                            /\ new.wins + new.draws + new.losses
                                   = old.wins + old.draws + old.losses + 1
                       ELSE new = old]_vars

\* the number of times round r was started
times_started(r) ==
    Cardinality({k \in 1..Len(league.rounds_started) : league.rounds_started[k] = r})

\* C36: the league is started at most once and never before the minimum
\* numbers of players and referees are registered: however many
\* check_and_start_league tasks pass the start condition, the schedule is
\* generated exactly once and round 1 is started exactly once
C36_StartedOnce ==
    /\ league.generations <= 1
    /\ times_started(1) <= 1
    /\ league.league_started =>
          /\ Len(league.registered_players) >= min_players_to_start
          /\ Len(league.registered_referees) >= min_referees
          /\ league.generations = 1
          /\ times_started(1) = 1
    /\ ~league.league_started => league.generations = 0 /\ times_started(1) = 0

\* start_league was called by two tasks that had passed the start condition
C36_Witness ==
    /\ league.start_calls >= 2
    /\ league.generations = 1
    /\ times_started(1) = 1

\* C37: a player agent that registers once has exactly one id, one entry in the
\* coordinator's registry and one entry in its standings, also when its request
\* was re-sent by the client's retry after a timeout
C37_OneEntryPerAgent ==
    \A a \in Applicants(league) :
        /\ Cardinality(entries_of(league, a)) = 1
        /\ Cardinality({i \in 1..Len(league.standings) :
               \E k \in entries_of(league, a) :
                   league.standings[i].player_id = league.registered_players[k]}) = 1

\* C38: a player that became ACTIVE by accepting the invitation to a match
\* eventually returns to REGISTERED once that match has ended at the referee,
\* settled or by a timeout
C38_ActiveReturnsToRegistered ==
    \A p \in MatchPlayers :
        (players[p].state = "ACTIVE" /\ players[p].current_match_id = "m1"
             /\ conduct["m1"].pc = "done")
          ~> (players[p].state = "REGISTERED")

\* in this step the table changes at most in entry m, and there at most in the
\* field of side a if own_a and in the field of side b if own_b
changes_only(m, field_a, field_b, own_a, own_b) ==
    /\ \A x \in MatchIds \ {m} : active_matches'[x] = active_matches[x]
    /\ active_matches[m] = NoMatch => active_matches'[m] = NoMatch
    /\ active_matches[m] # NoMatch =>
          /\ DOMAIN active_matches'[m] = DOMAIN active_matches[m]
          /\ \A f \in DOMAIN active_matches[m] \ {field_a, field_b} :
                active_matches'[m][f] = active_matches[m][f]
          /\ ~own_a => active_matches'[m][field_a] = active_matches[m][field_a]
          /\ ~own_b => active_matches'[m][field_b] = active_matches[m][field_b]

\* the sender p is the participant of match m on the given side
is_side(m, p, side) ==
    /\ active_matches[m] # NoMatch
    /\ p = IF side = "a" THEN active_matches[m].player_a ELSE active_matches[m].player_b

\* the effect of a join acknowledgement on the table
join_ack_frame(m, p, status) ==
    changes_only(m, "player_a_joined", "player_b_joined",
                 is_side(m, p, "a") /\ status = "ACCEPTED",
                 is_side(m, p, "b") /\ status = "ACCEPTED")

\* the effect of a choice response on the table
parity_frame(m, p) ==
    changes_only(m, "player_a_choice", "player_b_choice",
                 is_side(m, p, "a"), is_side(m, p, "b"))

\* C39: a join acknowledgement or choice response naming match id X changes
\* only X's entry of active_matches, and there only the flag or choice of the
\* side whose player id is the sender's; a message naming a match id that is
\* not in the table is answered with an error and changes nothing; a join
\* acknowledgement whose status is not ACCEPTED sets no flag
C39_MessagesChangeOwnSideOnly ==
    [][/\ \A m \in MatchIds, p \in MatchPlayers, status \in JoinStatuses :
             HandleGameJoinAck(m, p, status) =>
                 /\ join_ack_frame(m, p, status)
                 /\ active_matches[m] = NoMatch => lastReply' = "ERROR"
       /\ \A m \in MatchIds, p \in MatchPlayers, c \in ChoiceValues :
             HandleParityResponse(m, p, c) =>
                 /\ parity_frame(m, p)
                 /\ active_matches[m] = NoMatch => lastReply' = "ERROR"]_vars

\* C39, amended: as C39, but a join acknowledgement naming a match id that is
\* not in the table is answered with an error only if its status is ACCEPTED;
\* with another status it is answered RECEIVED
C39_DeclineOfUnknownMatchReceived ==
    [][/\ \A m \in MatchIds, p \in MatchPlayers, status \in JoinStatuses :
             HandleGameJoinAck(m, p, status) =>
                 /\ join_ack_frame(m, p, status)
                 /\ active_matches[m] = NoMatch =>
                       lastReply' = IF status = "ACCEPTED" THEN "ERROR" ELSE "RECEIVED"
       /\ \A m \in MatchIds, p \in MatchPlayers, c \in ChoiceValues :
             HandleParityResponse(m, p, c) =>
                 /\ parity_frame(m, p)
                 /\ active_matches[m] = NoMatch => lastReply' = "ERROR"]_vars

\* both matches are in the table; P02, who plays in both, has joined m1 and
\* has chosen in m1, and its flag and choice in m2 are untouched
C39_Witness ==
    /\ active_matches["m1"] # NoMatch
    /\ active_matches["m2"] # NoMatch
    /\ active_matches["m1"].player_b_joined
    /\ ~active_matches["m1"].player_a_joined
    /\ ~active_matches["m2"].player_a_joined
    /\ active_matches["m1"].player_b_choice = "odd"
    /\ active_matches["m2"].player_a_choice = NoChoice

====
